---- MODULE Spec2Model ----
(***************************************************************************)
(* Model of the wirl durable workflow orchestrator: the workflow_runs job  *)
(* queue (claim_job / set_state), the worker loop, the run API handlers    *)
(* (start / continue / cancel) and the cron scheduler over                 *)
(* workflow_triggers.                                                      *)
(*                                                                         *)
(* The datastore is PostgreSQL at READ COMMITTED.  One SQL statement is    *)
(* one atomic step.  The ORM handlers of backend/main.py read a row with   *)
(* db.get (a plain SELECT) and write it back with an unconditional UPDATE  *)
(* at db.commit(), so each of them is two steps: ...Read and ...Commit.    *)
(***************************************************************************)
EXTENDS Integers, Sequences, FiniteSets, TLC

\* ---------------------------------------------------------------- bounds
MaxRequests == 4        \* state-changing API requests and clock steps the environment makes
MaxContinues == 2       \* continue requests of the client that follows one run

RunIds == 1..2                      \* ids a new run's uuid4 may take, in ORDER BY id order
Workers == {"w1", "w2"}             \* worker tasks (WORKERS, default 4)

\* ---------------------------------------------------------------- values
Null == "NULL"          \* SQL NULL / Python None in a text column
NullTime == -1          \* SQL NULL in a timestamp column
NoRun == 0              \* no row

TemplateNames == {"tplA", "ghost"}   \* template_name of POST /workflows
Removable == {"tplA", "tplB"}         \* *.wirl files that may disappear
InputValues == {"{}", "{k:v}"}
StartInputs == {"{k:v}"}            \* request.inputs of POST /workflows

VARIABLES
    now,        \* wall clock / database now()
    runs,       \* table workflow_runs: id -> row
    pc,         \* worker task position: "claim" | "claiming" | "exec" | "raise" | "stopped"
    job,        \* the row a worker got from claim_job (its local `job`)
    api,        \* in-flight continue / cancel requests (their ORM sessions)
    queuedBy,   \* per run: which operation last queued it, or "claimed"
    nreq,       \* requests the environment has made so far
    templates,  \* *.wirl files present under WORKFLOWS_DIR
    triggers,   \* table workflow_triggers: id -> row
    sched,      \* scheduler instances: position, now, locked rows
    tapi,       \* in-flight trigger PATCH requests (their ORM sessions)
    checkpoints,\* checkpoint log: thread_id -> checkpoint tuples in append order
    runner,     \* run_workflow calls: per worker thread, the Runner's locals
    lastOp      \* the operation that made the last step

runVars == <<runs, pc, job, api, queuedBy>>
trigVars == <<triggers, sched, tapi>>
ckptVars == <<checkpoints, runner>>
vars == <<now, runs, pc, job, api, queuedBy, nreq, templates, triggers, sched, tapi,
          checkpoints, runner, lastOp>>

Op(name, run, ok) == [op |-> name, run |-> run, ok |-> ok, arg |-> Null]

\* ------------------------------------------------------- workflow_loader
NoTemplate == [id |-> Null, name |-> Null]      \* get_template returning None

get_template(identifier) ==
    IF identifier \in templates THEN [id |-> identifier, name |-> identifier] ELSE NoTemplate

\* ------------------------------------------------------------- run rows
WorkflowRun(id, graph, inputs) ==
    [ id |-> id, graph_name |-> graph, thread_id |-> id, state |-> "queued",
      attempt |-> 0, max_attempts |-> 3, worker_id |-> Null,
      started_at |-> NullTime, heartbeat_at |-> NullTime, finished_at |-> NullTime,
      error |-> Null, inputs |-> inputs, resume_payload |-> Null, result |-> "{}" ]

NoRow == WorkflowRun(NoRun, Null, Null)

Min(S) == CHOOSE x \in S : \A y \in S : x <= y

\* ------------------------------------------------------ workers/db.py
\* claim_job: WHERE state = 'queued'
ClaimCandidates_anyState == { r \in DOMAIN runs : runs[r].state \in {"queued", "running"} }

ClaimCandidates == { r \in DOMAIN runs : runs[r].state = "queued" }

\* claim_job: the SET list without heartbeat_at
ClaimUpdate_noHeartbeat(row, worker_id) ==
    [row EXCEPT !.state = "running", !.worker_id = worker_id,
                !.started_at = now, !.attempt = @ + 1]

\* claim_job: the SET list without attempt = attempt + 1
ClaimUpdate_keepAttempt(row, worker_id) ==
    [row EXCEPT !.state = "running", !.worker_id = worker_id,
                !.started_at = now, !.heartbeat_at = now]

\* claim_job: UPDATE ... SET state='running', worker_id=$1, started_at=now(),
\* heartbeat_at=now(), attempt=attempt+1
ClaimUpdate(row, worker_id) ==
    [row EXCEPT !.state = "running", !.worker_id = worker_id,
                !.started_at = now, !.heartbeat_at = now, !.attempt = @ + 1]

\* What the Runner hands back to the worker: a Python dict (or None).
PyNone == [kind |-> "None", keys |-> {}]
PyResults ==
    { [kind |-> "dict", keys |-> {"out"}],
      [kind |-> "dict", keys |-> {"out", "__interrupt__"}],
      [kind |-> "dict_unserializable", keys |-> {"out"}] }

\* json.dumps(result) as stored in the JSON column
JsonDumps(result) ==
    IF result.keys = {} THEN "{}"
    ELSE IF "__interrupt__" \in result.keys THEN "{out,__interrupt__}"
    ELSE "{out}"

\* set_state lines 51-54: res_str
ResStr(result) ==
    IF result.kind = "None" THEN "{}"
    ELSE IF result.kind = "dict_unserializable" THEN "{}"   \* except: res_str = "{}"
    ELSE JsonDumps(result)

Coalesce(a, b) == IF a # Null THEN a ELSE b

\* set_state's WHERE clause without the canceled guard
SetStateWhere_noGuard(row) == TRUE

\* set_state: WHERE id = $1 AND state != 'canceled'
SetStateWhere(row) == row.state # "canceled"

\* set_state: the SET list with error = COALESCE($3, error)
SetStateUpdate_keepError(row, new_state, res_str, error) ==
    [row EXCEPT
        !.state = new_state,
        !.heartbeat_at = IF new_state = "running" THEN now ELSE @,
        !.finished_at = IF new_state \in {"succeeded", "failed", "canceled"} THEN now ELSE NullTime,
        !.error = Coalesce(error, @),
        !.result = Coalesce(res_str, @)]

\* set_state: the SET list
SetStateUpdate(row, new_state, res_str, error) ==
    [row EXCEPT
        !.state = new_state,
        !.heartbeat_at = IF new_state = "running" THEN now ELSE @,
        !.finished_at = IF new_state \in {"succeeded", "failed", "canceled"} THEN now ELSE NullTime,
        !.error = error,
        !.result = Coalesce(res_str, @)]

set_state(row, new_state, result, error) ==
    IF SetStateWhere(row) THEN SetStateUpdate(row, new_state, ResStr(result), error) ELSE row

\* run_wirl line 109 without the test for the interrupt key
RunWirlState_ignoreInterrupt(result) == "succeeded"

\* run_wirl line 109
RunWirlState(result) == IF "__interrupt__" \in result.keys THEN "needs_input" ELSE "succeeded"

\* json.loads(job.get("inputs", "{}"))
JsonLoads(text) ==
    IF text = "{}" THEN [kind |-> "dict", keys |-> {}] ELSE [kind |-> "dict", keys |-> {"k"}]

\* Python truth value of job.get("resume_payload")
Truthy(text) == text # Null /\ text # ""

\* run_wirl lines 80-81 looking at the answer only
ResumeRule_payloadOnly(j) == Truthy(j.resume_payload)

\* run_wirl lines 80-81: if resume or job.get("attempt", 0) > 1
ResumeRule(j) == Truthy(j.resume_payload) \/ j.attempt > 1

NoCall == [made |-> FALSE, params |-> PyNone, resume |-> Null, thread_id |-> NoRun]

\* run_wirl lines 74-106: the arguments of run_workflow for the claimed row,
\* or no call when the template is gone
RunWorkflowCall(j) ==
    IF get_template(j.graph_name) = NoTemplate THEN NoCall
    ELSE [made |-> TRUE,
          params |-> IF ResumeRule(j) THEN PyNone ELSE JsonLoads(j.inputs),
          resume |-> j.resume_payload,
          thread_id |-> j.id]

TimeoutMsg == "Task timed out after 20 minutes"
ExcMsg == "str(exc)"
TemplateMsg == "Template not found"

\* run_wirl line 76: raise ValueError("Template not found")
TemplateNotFound == [kind |-> "exception", result |-> PyNone, error |-> TemplateMsg]

\* How one execution of run_wirl under wait_for ends once run_workflow is called.
Outcomes ==
    [kind : {"return"}, result : PyResults, error : {Null}]
        \cup { [kind |-> "timeout", result |-> PyNone, error |-> Null],
               [kind |-> "exception", result |-> PyNone, error |-> ExcMsg] }

AllOutcomes == Outcomes \cup {TemplateNotFound}

\* How run_wirl can end from the worker's position
RunWirlOutcomes(position) ==
    CASE position = "exec" -> Outcomes
      [] position = "raise" -> {TemplateNotFound}
      [] OTHER -> {}

\* worker lines 31-35 leaving a timed-out run as it is
FinalArgs_keepRunning(outcome) ==
    CASE outcome.kind = "return" ->
            [new_state |-> RunWirlState(outcome.result), result |-> outcome.result, error |-> Null]
      [] outcome.kind = "timeout" ->
            [new_state |-> "running", result |-> PyNone, error |-> Null]
      [] outcome.kind = "exception" ->
            [new_state |-> "failed", result |-> PyNone, error |-> outcome.error]

\* worker lines 36-38 without error=str(exc)
FinalArgs_noError(outcome) ==
    CASE outcome.kind = "return" ->
            [new_state |-> RunWirlState(outcome.result), result |-> outcome.result, error |-> Null]
      [] outcome.kind = "timeout" ->
            [new_state |-> "failed", result |-> PyNone, error |-> TimeoutMsg]
      [] outcome.kind = "exception" ->
            [new_state |-> "failed", result |-> PyNone, error |-> Null]

\* worker lines 24-38: the arguments of the set_state call for each outcome
FinalArgs(outcome) ==
    CASE outcome.kind = "return" ->
            [new_state |-> RunWirlState(outcome.result), result |-> outcome.result, error |-> Null]
      [] outcome.kind = "timeout" ->
            [new_state |-> "failed", result |-> PyNone, error |-> TimeoutMsg]
      [] outcome.kind = "exception" ->
            [new_state |-> "failed", result |-> PyNone, error |-> outcome.error]

\* ------------------------------------------------------- the clock
\* Time passes.
Tick ==
    /\ nreq < MaxRequests
    /\ nreq' = nreq + 1
    /\ now' = now + 1
    /\ lastOp' = Op("tick", NoRun, TRUE)
    /\ UNCHANGED <<runVars, templates, trigVars, ckptVars>>

\* ------------------------------------------------ workers/worker_pool.py
\* worker line 20: job = await claim_job(pool, wid); None -> sleep(10), continue.
\* With a job, run_wirl starts: its template lookup and the arguments of
\* run_workflow (lines 74-81) read only the claimed row and WORKFLOWS_DIR.
claim_job(w) ==
    /\ pc[w] = "claim"
    /\ IF ClaimCandidates # {}
       THEN LET r == Min(ClaimCandidates) IN
            /\ runs' = [runs EXCEPT ![r] = ClaimUpdate(@, w)]
            /\ job' = [job EXCEPT ![w] = runs'[r]]
            /\ pc' = [pc EXCEPT ![w] = IF RunWorkflowCall(runs'[r]).made THEN "exec" ELSE "raise"]
            /\ queuedBy' = [queuedBy EXCEPT ![r] = "claimed"]
            /\ lastOp' = [op |-> "claim_job", run |-> r, ok |-> TRUE, arg |-> Null,
                          call |-> RunWorkflowCall(runs'[r])]
       ELSE /\ UNCHANGED <<runs, job, pc, queuedBy>>
            /\ lastOp' = Op("claim_job", NoRun, FALSE)
    /\ UNCHANGED <<now, api, nreq, templates, trigVars, ckptVars>>

\* worker lines 24-38: run_wirl ends with `outcome`, then set_state
worker_finish(w, outcome) ==
    /\ outcome \in RunWirlOutcomes(pc[w])
    /\ LET r == job[w].id
           a == FinalArgs(outcome) IN
       /\ runs' = [runs EXCEPT ![r] = set_state(@, a.new_state, a.result, a.error)]
       /\ lastOp' = [op |-> "set_state", run |-> r, ok |-> SetStateWhere(runs[r]),
                     arg |-> outcome.kind, res |-> outcome.result,
                     exc |-> outcome.error, w |-> w]
    /\ pc' = [pc EXCEPT ![w] = "claim"]
    /\ job' = [job EXCEPT ![w] = NoRow]       \* `job` is dead until the next claim
    /\ UNCHANGED <<now, api, queuedBy, nreq, templates, trigVars, ckptVars>>

\* ------------------------------------------------- backend/main.py: runs
\* POST /workflows
start_workflow(id, template_name, inputs) ==
    /\ id \notin DOMAIN runs
    /\ nreq < MaxRequests
    /\ LET tpl == get_template(template_name) IN
       IF tpl = NoTemplate
       THEN /\ lastOp' = Op("start_workflow_404", NoRun, FALSE)
            /\ UNCHANGED <<runs, queuedBy, nreq>>
       ELSE /\ runs' = (id :> WorkflowRun(id, tpl.id, inputs)) @@ runs
            /\ queuedBy' = [queuedBy EXCEPT ![id] = "start"]
            /\ nreq' = nreq + 1
            /\ lastOp' = Op("start_workflow", id, TRUE)
    /\ UNCHANGED <<now, pc, job, api, templates, trigVars, ckptVars>>

\* json.dumps({"answer": request.inputs})
AnswerPayload(inputs) == IF inputs = "{}" THEN "{answer:{}}" ELSE "{answer:{k:v}}"

\* continue_workflow line 391 letting a queued run through
ContinueAllowed_queued(state) == state \in {"needs_input", "failed", "queued"}

\* continue_workflow line 391
ContinueAllowed(state) == state \in {"needs_input", "failed"}

\* POST /workflows/{id}/continue, lines 388-392: db.get and the state check.
\* The session keeps the loaded row; state and resume_payload are what the
\* rest of the handler reads from it.
continue_read(r, inputs) ==
    /\ r \in DOMAIN runs
    /\ nreq < MaxRequests
    /\ IF ContinueAllowed(runs[r].state)
       THEN /\ api' = api \cup {[op |-> "continue", run |-> r, state |-> runs[r].state,
                                 resume_payload |-> runs[r].resume_payload, inputs |-> inputs]}
            /\ nreq' = nreq + 1
            /\ lastOp' = Op("continue_read", r, TRUE)
       ELSE /\ UNCHANGED <<api, nreq>>
            /\ lastOp' = Op("continue_400", r, FALSE)
    /\ UNCHANGED <<now, runs, pc, job, queuedBy, templates, trigVars, ckptVars>>

\* continue_workflow lines 394-395 assigning the payload whatever the state
ResumePayload_always(req) == AnswerPayload(req.inputs)

\* continue_workflow lines 394-395: run.resume_payload after the if
ResumePayload(req) ==
    IF req.state = "needs_input" THEN AnswerPayload(req.inputs) ELSE req.resume_payload

\* lines 394-398: the attributes assigned, flushed as one UPDATE ... WHERE id = :id
\* that sets the attributes whose value differs from the loaded one
continue_commit(req) ==
    /\ req \in api
    /\ req.op = "continue"
    /\ LET r == req.run
           payload == ResumePayload(req) IN
       /\ runs' = [runs EXCEPT ![r] =
                      [@ EXCEPT !.state = "queued",
                                !.resume_payload = IF payload # req.resume_payload THEN payload ELSE @]]
       /\ queuedBy' = [queuedBy EXCEPT ![r] = "continue"]
       /\ lastOp' = Op("continue_commit", r, TRUE)
    /\ api' = api \ {req}
    /\ UNCHANGED <<now, pc, job, nreq, templates, trigVars, ckptVars>>

\* cancel_workflow line 411 letting a queued run through
CancelAllowed_queued(state) == state \in {"running", "queued"}

\* cancel_workflow line 411
CancelAllowed(state) == state = "running"

\* POST /workflows/{id}/cancel, lines 408-412: db.get and the state check
cancel_read(r) ==
    /\ r \in DOMAIN runs
    /\ nreq < MaxRequests
    /\ IF CancelAllowed(runs[r].state)
       THEN /\ api' = api \cup {[op |-> "cancel", run |-> r, state |-> runs[r].state,
                                 resume_payload |-> runs[r].resume_payload, inputs |-> Null]}
            /\ nreq' = nreq + 1
            /\ lastOp' = Op("cancel_read", r, TRUE)
       ELSE /\ UNCHANGED <<api, nreq>>
            /\ lastOp' = Op("cancel_400", r, FALSE)
    /\ UNCHANGED <<now, runs, pc, job, queuedBy, templates, trigVars, ckptVars>>

\* lines 413-414: run.state = CANCELED; db.commit()
cancel_commit(req) ==
    /\ req \in api
    /\ req.op = "cancel"
    /\ LET r == req.run IN
       /\ runs' = [runs EXCEPT ![r] = [@ EXCEPT !.state = "canceled"]]
       /\ lastOp' = Op("cancel_commit", r, TRUE)
    /\ api' = api \ {req}
    /\ UNCHANGED <<now, pc, job, queuedBy, nreq, templates, trigVars, ckptVars>>

\* ------------------------------------------------- backend/scheduler.py
TicksPerMinute == 2     \* clock resolution: instants per minute
ClockSteps == {1, 5}    \* how far the clock moves between two observed events

Crons == {"* * * * *", "*/2 * * * *", "invalid cron"}
Zones == {"UTC", "Etc/GMT-1", "Mars/Phobos"}
TriggerIds == {1, 2}
Schedulers == {"s1", "s2"}          \* backend processes, one ScheduleRunner each

\* ZoneInfo(tz_name): offset of the zone from UTC, in minutes
ZoneKnown(tz_name) == tz_name \in {"UTC", "Etc/GMT-1"}
UtcOffset(tz_name) == IF tz_name = "Etc/GMT-1" THEN 1 ELSE 0

\* croniter(cron, base): whether the expression parses, and the minutes it matches
CronValid(cron) == cron \in {"* * * * *", "*/2 * * * *"}
CronStep(cron) == IF cron = "*/2 * * * *" THEN 2 ELSE 1
CronMatches(cron, minute) == minute % CronStep(cron) = 0

\* datetime.astimezone(tz) and back
AsTimezone(t, tz_name) == t + UtcOffset(tz_name) * TicksPerMinute
AsUtc(local, tz_name) == local - UtcOffset(tz_name) * TicksPerMinute

\* base.replace(second=0, microsecond=0)
ReplaceSeconds(t) == t - (t % TicksPerMinute)

\* iterator.get_next(datetime) taking a matching minute at or after base
GetNext_inclusive(cron, base) ==
    LET m0 == base \div TicksPerMinute
        m == CHOOSE m \in m0..(m0 + CronStep(cron)) :
                /\ CronMatches(cron, m)
                /\ \A k \in m0..(m - 1) : ~CronMatches(cron, k)
    IN  m * TicksPerMinute

\* iterator.get_next(datetime): the first matching minute strictly after base
GetNext(cron, base) ==
    LET m0 == base \div TicksPerMinute
        m == CHOOSE m \in (m0 + 1)..(m0 + CronStep(cron)) :
                /\ CronMatches(cron, m)
                /\ \A k \in (m0 + 1)..(m - 1) : ~CronMatches(cron, k)
    IN  m * TicksPerMinute

\* calculate_next_run(cron, tz_name, from_time): the instant returned, or the
\* exception raised
calculate_next_run(cron, tz_name, from_time) ==
    IF ~ZoneKnown(tz_name)
    THEN [raised |-> "ZoneInfoNotFoundError", at |-> NullTime]
    ELSE IF ~CronValid(cron)
    THEN [raised |-> "CronExpressionError", at |-> NullTime]
    ELSE LET base == ReplaceSeconds(AsTimezone(from_time, tz_name))
         IN  [raised |-> Null, at |-> AsUtc(GetNext(cron, base), tz_name)]

\* models.WorkflowTrigger
WorkflowTrigger(id, name, template_name, cron, tz_name, inputs, is_active, next_run_at) ==
    [ id |-> id, name |-> name, template_name |-> template_name, cron |-> cron, timezone |-> tz_name,
      inputs |-> inputs, is_active |-> is_active, next_run_at |-> next_run_at,
      last_run_at |-> NullTime, last_error |-> Null ]

\* _process_triggers: the WHERE clause of the select, without the next_run_at bound
IsDue_anyTime(trigger, at) == trigger.is_active /\ trigger.next_run_at # NullTime

\* _process_triggers: the WHERE clause of the select, without the is_active test
IsDue_ignoreActive(trigger, at) == trigger.next_run_at # NullTime /\ trigger.next_run_at <= at

\* _process_triggers lines 84-88: is_active AND next_run_at IS NOT NULL AND next_run_at <= now
IsDue(trigger, at) ==
    trigger.is_active /\ trigger.next_run_at # NullTime /\ trigger.next_run_at <= at

\* trigger.inputs or {}
InputsOrEmpty(inputs) == IF inputs = Null \/ inputs = "{}" THEN "{}" ELSE inputs

NotFoundMsg(template_name) == "Template 'name' not found"

\* _enqueue_trigger_run lines 122-137 computing the next firing from the stale next_run_at
NextFrom_stale(trigger, at) == calculate_next_run(trigger.cron, trigger.timezone, trigger.next_run_at)

\* _enqueue_trigger_run lines 127-131: calculate_next_run(cron, timezone, from_time=now)
NextFrom(trigger, at) == calculate_next_run(trigger.cron, trigger.timezone, at)

\* _enqueue_trigger_run lines 105-107 recording the error only
MissingTemplate_keepActive(trigger) ==
    [trigger EXCEPT !.last_error = NotFoundMsg(trigger.template_name)]

\* _enqueue_trigger_run lines 105-107 resetting the inputs as well
MissingTemplate_resetInputs(trigger) ==
    [trigger EXCEPT !.last_error = NotFoundMsg(trigger.template_name),
                    !.is_active = FALSE, !.next_run_at = NullTime, !.inputs = Null]

\* _enqueue_trigger_run lines 105-107: the template is missing
MissingTemplate(trigger) ==
    [trigger EXCEPT !.last_error = NotFoundMsg(trigger.template_name),
                    !.is_active = FALSE, !.next_run_at = NullTime]

\* _enqueue_trigger_run lines 133-136 recording the error only
NextRunFailed_keepActive(trigger, exc) ==
    [trigger EXCEPT !.next_run_at = NullTime, !.last_error = exc]

\* _enqueue_trigger_run lines 133-136: except Exception as exc
NextRunFailed(trigger, exc) ==
    [trigger EXCEPT !.next_run_at = NullTime, !.is_active = FALSE, !.last_error = exc]

\* _enqueue_trigger_run: the trigger row after the call
EnqueueTrigger(trigger, at) ==
    IF get_template(trigger.template_name) = NoTemplate
    THEN MissingTemplate(trigger)
    ELSE LET next == NextFrom(trigger, at) IN
         IF next.raised = Null
         THEN [trigger EXCEPT !.last_run_at = at, !.last_error = Null, !.next_run_at = next.at]
         ELSE NextRunFailed([trigger EXCEPT !.last_run_at = at, !.last_error = Null],
                            next.raised)

\* _enqueue_trigger_run lines 111-120 with inputs left at the column default
EnqueueRun_defaultInputs(trigger, run_id) ==
    WorkflowRun(run_id, get_template(trigger.template_name).id, "{}")

\* _enqueue_trigger_run lines 111-120: the run added to the session, if any
EnqueueRun(trigger, run_id) ==
    WorkflowRun(run_id, get_template(trigger.template_name).id, InputsOrEmpty(trigger.inputs))

EnqueuesRun(trigger) == get_template(trigger.template_name) # NoTemplate

\* str(uuid.uuid4()) for the k-th run a tick adds: an id no row has
Uuid4(k) == Cardinality(DOMAIN runs) + k

\* rank of trigger t among the triggers of `locked` that get a run (loop order)
RunRank(locked, t) == Cardinality({u \in locked : u <= t /\ EnqueuesRun(triggers[u])})

IdleSched == [pc |-> "sleep", now |-> NullTime, locked |-> {}]

\* a select that does not see the row locks of other transactions
RowLocked_never(t) == FALSE

\* with_for_update(skip_locked=True): another transaction holds the row lock
RowLocked(t) == \E s \in Schedulers : t \in sched[s].locked

\* Time passes (scheduler specification).
clock_advance(d) ==
    /\ nreq < MaxRequests
    /\ nreq' = nreq + 1
    /\ now' = now + d
    /\ lastOp' = Op("clock", NoRun, TRUE)
    /\ UNCHANGED <<runVars, templates, trigVars, ckptVars>>

\* A *.wirl file disappears from WORKFLOWS_DIR.
remove_template(name) ==
    /\ nreq < MaxRequests
    /\ name \in templates
    /\ nreq' = nreq + 1
    /\ templates' = templates \ {name}
    /\ lastOp' = Op("remove_template", NoRun, TRUE)
    /\ UNCHANGED <<now, runVars, trigVars, ckptVars>>

\* _process_triggers line 77: now = datetime.now(timezone.utc)
process_begin(s) ==
    /\ sched[s].pc = "sleep"
    /\ sched' = [sched EXCEPT ![s] = [pc |-> "select", now |-> now, locked |-> {}]]
    /\ lastOp' = Op("process_begin", NoRun, TRUE)
    /\ UNCHANGED <<now, runVars, nreq, templates, triggers, tapi, ckptVars>>

\* lines 83-95: SELECT ... FOR UPDATE SKIP LOCKED
process_select(s) ==
    /\ sched[s].pc = "select"
    /\ sched' = [sched EXCEPT ![s] =
                    [@ EXCEPT !.pc = "commit",
                              !.locked = { t \in DOMAIN triggers :
                                             IsDue(triggers[t], sched[s].now) /\ ~RowLocked(t) }]]
    /\ lastOp' = Op("process_select", NoRun, TRUE)
    /\ UNCHANGED <<now, runVars, nreq, templates, triggers, tapi, ckptVars>>

\* lines 97-100: _enqueue_trigger_run for each selected trigger, then session.commit()
process_commit(s) ==
    /\ sched[s].pc = "commit"
    /\ LET locked == sched[s].locked
           at == sched[s].now
           enq == [t \in {u \in locked : EnqueuesRun(triggers[u])} |-> Uuid4(RunRank(locked, t))]
       IN
       /\ triggers' = [t \in DOMAIN triggers |->
                          IF t \in locked THEN EnqueueTrigger(triggers[t], at) ELSE triggers[t]]
       /\ runs' = [id \in {enq[t] : t \in DOMAIN enq} |->
                      EnqueueRun(triggers[CHOOSE t \in DOMAIN enq : enq[t] = id], id)] @@ runs
       /\ queuedBy' = [r \in RunIds |->
                          IF \E t \in DOMAIN enq : enq[t] = r THEN "tick" ELSE queuedBy[r]]
       /\ lastOp' = [op |-> "process_triggers", run |-> NoRun, ok |-> TRUE, arg |-> s,
                     now |-> at, acted |-> locked, enq |-> enq,
                     due |-> [t \in locked |-> triggers[t].next_run_at]]
    /\ sched' = [sched EXCEPT ![s] = IdleSched]
    /\ UNCHANGED <<now, pc, job, api, nreq, templates, tapi, ckptVars>>

\* ---------------------------------------------- backend/main.py: triggers
\* Bodies of POST /workflow-triggers
CreateRequests ==
    { [name |-> "every minute", template_name |-> "tplA", cron |-> "* * * * *", timezone |-> "UTC",
       inputs |-> "{k:v}", is_active |-> TRUE],
      [name |-> "every other minute", template_name |-> "tplB", cron |-> "*/2 * * * *", timezone |-> "Etc/GMT-1",
       inputs |-> "{}", is_active |-> TRUE],
      [name |-> "paused", template_name |-> "tplA", cron |-> "*/2 * * * *", timezone |-> "UTC",
       inputs |-> "{}", is_active |-> FALSE],
      [name |-> "bad cron", template_name |-> "tplA", cron |-> "invalid cron", timezone |-> "UTC",
       inputs |-> "{}", is_active |-> TRUE],
      [name |-> "bad zone", template_name |-> "tplA", cron |-> "* * * * *", timezone |-> "Mars/Phobos",
       inputs |-> "{}", is_active |-> TRUE],
      [name |-> "ghost template", template_name |-> "ghost", cron |-> "* * * * *", timezone |-> "UTC",
       inputs |-> "{}", is_active |-> TRUE] }

\* create_workflow_trigger
create_workflow_trigger(id, request) ==
    /\ id \notin DOMAIN triggers
    /\ \A u \in TriggerIds : u < id => u \in DOMAIN triggers     \* ids in creation order
    /\ nreq < MaxRequests
    /\ LET tpl == get_template(request.template_name)
           next == IF request.is_active
                   THEN calculate_next_run(request.cron, request.timezone, now)
                   ELSE [raised |-> Null, at |-> NullTime]
       IN
       IF tpl = NoTemplate
       THEN /\ lastOp' = Op("create_trigger_404", NoRun, FALSE)
            /\ UNCHANGED <<triggers, nreq>>
       ELSE IF next.raised # Null
       THEN /\ lastOp' = Op("create_trigger_400", NoRun, FALSE)
            /\ UNCHANGED <<triggers, nreq>>
       ELSE /\ triggers' = (id :> WorkflowTrigger(id, request.name, tpl.id, request.cron, request.timezone,
                                                  request.inputs, request.is_active, next.at))
                            @@ triggers
            /\ nreq' = nreq + 1
            /\ lastOp' = Op("create_trigger", id, TRUE)
    /\ UNCHANGED <<now, runVars, templates, sched, tapi, ckptVars>>

\* Bodies of PATCH /workflow-triggers/{id}: the fields present (others are None)
UpdateRequests ==
    { [cron |-> c, is_active |-> Null] : c \in Crons }
        \cup { [cron |-> Null, is_active |-> b] : b \in {"true", "false"} }

\* update_workflow_trigger lines 171-207: db.get, the assignments and the
\* recomputation; the attributes that differ from the loaded row are kept for the flush
update_read(t, request) ==
    /\ t \in DOMAIN triggers
    /\ nreq < MaxRequests
    /\ LET old == triggers[t]
           cron == IF request.cron # Null THEN request.cron ELSE old.cron
           active == IF request.is_active # Null THEN request.is_active = "true" ELSE old.is_active
           next == IF active THEN calculate_next_run(cron, old.timezone, now)
                   ELSE [raised |-> Null, at |-> NullTime]
           new == [old EXCEPT !.cron = cron, !.is_active = active, !.next_run_at = next.at,
                              !.last_error = IF active THEN Null ELSE @]
       IN
       IF next.raised # Null
       THEN /\ lastOp' = Op("update_trigger_400", t, FALSE)
            /\ UNCHANGED <<tapi, nreq>>
       ELSE /\ tapi' = tapi \cup {[id |-> t, loaded |-> old, new |-> new]}
            /\ nreq' = nreq + 1
            /\ lastOp' = Op("update_read", t, TRUE)
    /\ UNCHANGED <<now, runVars, templates, triggers, sched, ckptVars>>

\* The flush: UPDATE workflow_triggers SET <changed attributes> WHERE id = :id
Flush(row, loaded, new) ==
    [row EXCEPT !.cron = IF new.cron # loaded.cron THEN new.cron ELSE @,
                !.is_active = IF new.is_active # loaded.is_active THEN new.is_active ELSE @,
                !.next_run_at = IF new.next_run_at # loaded.next_run_at THEN new.next_run_at ELSE @,
                !.last_error = IF new.last_error # loaded.last_error THEN new.last_error ELSE @]

\* update_workflow_trigger line 211: db.commit(); the UPDATE waits for a row lock
update_commit(req) ==
    /\ req \in tapi
    /\ ~RowLocked(req.id)
    /\ triggers' = [triggers EXCEPT ![req.id] = Flush(@, req.loaded, req.new)]
    /\ tapi' = tapi \ {req}
    /\ lastOp' = Op("update_commit", req.id, TRUE)
    /\ UNCHANGED <<now, runVars, nreq, templates, sched, ckptVars>>

\* -------------------------------------------- the graph: photo_notes_workflow
\* GetPhotos -> ExtractNote (once per photo) -> AgreeWithUser (asks the user)
\* -> SaveNotes, with the shortcut GetPhotos -> SaveNotes when no photo is found.
Nodes == {"GetPhotos", "ExtractNote", "AgreeWithUser", "SaveNotes"}
EntryNode == "GetPhotos"
InterruptNodes == {"AgreeWithUser"}
Photos == <<"a.jpg", "b.jpg">>

BranchTo(node) ==
    CASE node = "GetPhotos" -> "branch:to:GetPhotos"
      [] node = "ExtractNote" -> "branch:to:ExtractNote"
      [] node = "AgreeWithUser" -> "branch:to:AgreeWithUser"
      [] node = "SaveNotes" -> "branch:to:SaveNotes"

BranchChannels == { BranchTo(n) : n \in Nodes }
SystemChannels == {"__interrupt__"}
AppendChannels == {"ExtractNote.notes"}      \* channels declared with the append reducer

\* channel.split("branch:to:", 1)[1]
BranchTarget(channel) == CHOOSE n \in Nodes : BranchTo(n) = channel

\* "." in channel, channel.split(".", 1)[0]
HasDot(channel) == channel \notin {"k"} \cup BranchChannels \cup SystemChannels

NodePrefix(channel) ==
    CASE channel \in {"GetPhotos.file_paths", "GetPhotos.no_files_found"} -> "GetPhotos"
      [] channel = "ExtractNote.notes" -> "ExtractNote"
      [] channel = "AgreeWithUser.comments_from_user" -> "AgreeWithUser"
      [] channel = "SaveNotes.notes_file_path" -> "SaveNotes"

EmptyDict == [c \in {} |-> <<>>]

Write(task_id, channel, value) == [task_id |-> task_id, channel |-> channel, value |-> value]

\* get_photos
GetPhotosWrites(tid, found) ==
    IF found
    THEN << Write(tid, "GetPhotos.file_paths", Photos), Write(tid, BranchTo("ExtractNote"), <<>>) >>
    ELSE << Write(tid, "GetPhotos.no_files_found", <<"true">>), Write(tid, BranchTo("SaveNotes"), <<>>) >>

\* extract_note / check_all_photos_processed: one note per execution, appended
\* to notes; the cycle ends when every photo has its note
ExtractNoteWrites(tid, state) ==
    LET done == IF "ExtractNote.notes" \in DOMAIN state THEN Len(state["ExtractNote.notes"]) ELSE 0
        next == IF done + 1 < Len(Photos) THEN "ExtractNote" ELSE "AgreeWithUser"
    IN << Write(tid, "ExtractNote.notes", <<"note">>), Write(tid, BranchTo(next), <<>>) >>

\* agree_with_user with the answer in place of the interrupt
AgreeWithUserWrites(tid, resume) ==
    << Write(tid, "AgreeWithUser.comments_from_user", <<resume>>),
       Write(tid, BranchTo("SaveNotes"), <<>>) >>

\* save_notes
SaveNotesWrites(tid, state) ==
    << Write(tid, "SaveNotes.notes_file_path",
             IF "GetPhotos.no_files_found" \in DOMAIN state
             THEN <<"no notes to save">> ELSE <<"path.md">>) >>

\* ------------------------------------------------------------ Checkpointer
Checkpoint(step, channel_values, pending_writes) ==
    [step |-> step, channel_values |-> channel_values, pending_writes |-> pending_writes]

\* Put(threadId, tuple): append
Put(log, checkpoint) == Append(log, checkpoint)

\* ------------------------------------------------------------ Pregel Runner
\* one write applied to the channel values, through the reducer of its channel
ApplyWrite(state, write) ==
    IF write.channel \in AppendChannels /\ write.channel \in DOMAIN state
    THEN [state EXCEPT ![write.channel] = @ \o write.value]
    ELSE (write.channel :> write.value) @@ state

RECURSIVE ApplyWrites(_, _)
ApplyWrites(state, writes) ==
    IF writes = <<>> THEN state
    ELSE ApplyWrites(ApplyWrite(state, Head(writes)), Tail(writes))

\* the public view: drop keys starting with branch: or __
Projected(state) ==
    [c \in {k \in DOMAIN state : k \notin BranchChannels /\ k \notin SystemChannels} |-> state[c]]

RECURSIVE Targets(_)
\* the branch:to:* targets among some writes, in emission order, each once
Targets(writes) ==
    IF writes = <<>> THEN <<>>
    ELSE LET rest == Targets(SubSeq(writes, 1, Len(writes) - 1))
             last == writes[Len(writes)]
         IN IF last.channel \in BranchChannels
               /\ \A i \in 1..Len(rest) : rest[i] # BranchTarget(last.channel)
            THEN Append(rest, BranchTarget(last.channel))
            ELSE rest

\* the node whose interrupt the writes record, or Null
InterruptedNode(writes) ==
    IF \E i \in 1..Len(writes) : writes[i].channel = "__interrupt__"
    THEN writes[CHOOSE i \in 1..Len(writes) : writes[i].channel = "__interrupt__"].value[1]
    ELSE Null

\* The locals of one run_workflow call; `call` names the claim it serves.
IdleRunner ==
    [call |-> <<NoRun, 0>>, thread |-> NoRun, phase |-> "idle", step |-> NullTime,
     values |-> EmptyDict, queue |-> <<>>, inject |-> Null, resumed |-> Null,
     resume |-> Null, executed |-> <<>>, interrupted |-> FALSE]

\* channel_values of the baseline checkpoint: the params
ParamsValues(params) == [c \in params.keys |-> <<"v">>]

\* what one node hands back
NodeWrites(node, tid, state, resume, found) ==
    CASE node = "GetPhotos" -> GetPhotosWrites(tid, found)
      [] node = "ExtractNote" -> ExtractNoteWrites(tid, state)
      [] node = "AgreeWithUser" -> AgreeWithUserWrites(tid, resume)
      [] node = "SaveNotes" -> SaveNotesWrites(tid, state)

\* a superstep that runs the nodes after the one that interrupted as well
RECURSIVE ExecNodes_pastInterrupt(_, _, _, _)
ExecNodes_pastInterrupt(queue, R, found, w) ==
    IF queue = <<>> THEN [writes |-> <<>>, interrupted |-> FALSE, executed |-> <<>>]
    ELSE LET node == Head(queue)
             tid == <<node, R.step + 1, w>>
             rest == ExecNodes_pastInterrupt(Tail(queue), R, found, w)
         IN IF node \in InterruptNodes /\ R.inject # node
            THEN [writes |-> <<Write(tid, "__interrupt__", <<node>>)>>
                                \o SaveNotesWrites(<<"SaveNotes", R.step + 1, w>>, R.values),
                  interrupted |-> TRUE, executed |-> <<node, "SaveNotes">>]
            ELSE [writes |-> NodeWrites(node, tid, R.values, R.resume, found) \o rest.writes,
                  interrupted |-> rest.interrupted,
                  executed |-> <<node>> \o rest.executed]

\* Execute a superstep: the pending nodes in order, each on the state the
\* superstep started with; a node that signals an interrupt ends it with a
\* write on __interrupt__ and no node runs after it.
RECURSIVE ExecNodes(_, _, _, _)
ExecNodes(queue, R, found, w) ==
    IF queue = <<>> THEN [writes |-> <<>>, interrupted |-> FALSE, executed |-> <<>>]
    ELSE LET node == Head(queue)
             tid == <<node, R.step + 1, w>>
         IN IF node \in InterruptNodes /\ R.inject # node
            THEN [writes |-> <<Write(tid, "__interrupt__", <<node>>)>>,
                  interrupted |-> TRUE, executed |-> <<node>>]
            ELSE LET rest == ExecNodes(Tail(queue), R, found, w)
                 IN [writes |-> NodeWrites(node, tid, R.values, R.resume, found) \o rest.writes,
                     interrupted |-> rest.interrupted,
                     executed |-> <<node>> \o rest.executed]

\* Resume semantics: with `resume`, the node whose interrupt the last
\* checkpoint records gets the value in place of the interrupt
ResumeNode(resume, latest) ==
    IF resume # Null THEN InterruptedNode(latest.pending_writes) ELSE Null

\* Scheduling: the pending nodes of a loaded checkpoint.  A recorded interrupt
\* keeps its node pending until an answer replaces it.
PendingNodes(latest) ==
    IF InterruptedNode(latest.pending_writes) # Null
    THEN <<InterruptedNode(latest.pending_writes)>>
    ELSE Targets(latest.pending_writes)

\* the dict run_workflow returns, as the worker sees it: "out" stands for the
\* projected channels
PyResult(R) ==
    [kind |-> "dict", keys |-> {"out"} \cup (IF R.interrupted THEN {"__interrupt__"} ELSE {})]

\* run_workflow, Initialize: first call on the thread writes the baseline
\* checkpoint (step -1, channel_values = params, the entry node pending); then
\* the latest checkpoint is loaded and its pending writes applied.
run_begin(w) ==
    /\ pc[w] = "exec"
    /\ runner[w].call # <<job[w].id, job[w].attempt>>
    /\ LET call == RunWorkflowCall(job[w])
           tid == call.thread_id
           baseline == Checkpoint(-1, ParamsValues(call.params),
                                  <<Write(<<"__start__", -1, w>>, BranchTo(EntryNode), <<>>)>>)
           log == IF checkpoints[tid] = <<>> THEN Put(<<>>, baseline) ELSE checkpoints[tid]
           latest == log[Len(log)]
           queue == PendingNodes(latest)
       IN /\ call.made
          /\ checkpoints' = [checkpoints EXCEPT ![tid] = log]
          /\ runner' = [runner EXCEPT ![w] =
                [call |-> <<job[w].id, job[w].attempt>>, thread |-> tid,
                 phase |-> IF queue = <<>> THEN "returned" ELSE "running",
                 step |-> latest.step,
                 values |-> ApplyWrites(latest.channel_values, latest.pending_writes),
                 queue |-> queue,
                 inject |-> ResumeNode(call.resume, latest),
                 resumed |-> ResumeNode(call.resume, latest),
                 resume |-> call.resume,
                 executed |-> <<>>, interrupted |-> FALSE]]
          /\ lastOp' = [op |-> "run_workflow", run |-> tid, ok |-> TRUE, arg |-> w]
    /\ UNCHANGED <<now, runVars, nreq, templates, trigVars>>

\* One superstep of a run_workflow call, in its thread: execute the pending
\* nodes, Put one checkpoint with step = previous + 1, the channel values the
\* superstep started with and the writes of its nodes; the new pending nodes
\* are the branch targets written.  A node that raises ends the call without
\* a checkpoint.  The thread goes on after the worker's wait_for has timed out.
superstep(w, found, raises) ==
    /\ runner[w].phase = "running"
    /\ LET R == runner[w]
           exec == ExecNodes(R.queue, R, found, w)
           queue == IF exec.interrupted THEN <<>> ELSE Targets(exec.writes)
       IN IF raises
          THEN /\ runner' = [runner EXCEPT ![w].phase = "raised",
                                           ![w].executed = Append(@, Head(R.queue))]
               /\ UNCHANGED checkpoints
          ELSE /\ checkpoints' = [checkpoints EXCEPT ![R.thread] =
                                     Put(@, Checkpoint(R.step + 1, R.values, exec.writes))]
               /\ runner' = [runner EXCEPT ![w] =
                     [R EXCEPT !.step = @ + 1,
                               !.values = ApplyWrites(R.values, exec.writes),
                               !.queue = queue,
                               !.inject = Null,
                               !.executed = @ \o exec.executed,
                               !.interrupted = exec.interrupted,
                               !.phase = IF queue = <<>> THEN "returned" ELSE "running"]]
    /\ lastOp' = [op |-> "superstep", run |-> runner[w].thread, ok |-> ~raises, arg |-> w]
    /\ UNCHANGED <<now, runVars, nreq, templates, trigVars>>

ServesClaim(w) == runner[w].call = <<job[w].id, job[w].attempt>>

\* worker lines 26-30: run_workflow has returned
run_returns(w) ==
    /\ ServesClaim(w) /\ runner[w].phase = "returned"
    /\ worker_finish(w, [kind |-> "return", result |-> PyResult(runner[w]), error |-> Null])

\* worker lines 36-38: a node raised
run_raises(w) ==
    /\ ServesClaim(w) /\ runner[w].phase = "raised"
    /\ worker_finish(w, [kind |-> "exception", result |-> PyNone, error |-> ExcMsg])

\* worker lines 31-35: wait_for gives up; the thread of asyncio.to_thread is
\* not stopped
run_times_out(w) ==
    /\ pc[w] = "exec"
    /\ worker_finish(w, [kind |-> "timeout", result |-> PyNone, error |-> Null])

\* ------------------------------------- backend/main.py: Run-Details Reader
filter_state(state) ==
    [c \in {k \in DOMAIN state : k \notin BranchChannels /\ k \notin SystemChannels} |-> state[c]]

classify_channel(channel) ==
    IF channel \in BranchChannels THEN "branch"
    ELSE IF channel \in SystemChannels THEN "system"
    ELSE "state"

RECURSIVE extract_branch_targets(_)
extract_branch_targets(writes) ==
    IF writes = <<>> THEN <<>>
    ELSE IF Head(writes).channel \in BranchChannels
         THEN <<BranchTarget(Head(writes).channel)>> \o extract_branch_targets(Tail(writes))
         ELSE extract_branch_targets(Tail(writes))

\* _group_writes starting a group at every entry
group_writes_perEntry(writes) ==
    [i \in 1..Len(writes) |-> [task_id |-> writes[i].task_id, writes |-> <<writes[i]>>]]

RECURSIVE group_writes(_)
group_writes(writes) ==
    IF writes = <<>> THEN <<>>
    ELSE LET grouped == group_writes(SubSeq(writes, 1, Len(writes) - 1))
             entry == writes[Len(writes)]
         IN IF grouped # <<>> /\ grouped[Len(grouped)].task_id = entry.task_id
            THEN [grouped EXCEPT ![Len(grouped)].writes = Append(@, entry)]
            ELSE Append(grouped, [task_id |-> entry.task_id, writes |-> <<entry>>])

\* WorkflowRunWrite(channel=channel, kind=kind, value=jsonable_encoder(value))
WorkflowRunWrite(write) ==
    [channel |-> write.channel, kind |-> classify_channel(write.channel), value |-> write.value]

\* lines 316-335 leaving the branch targets out of pending_nodes
ReadWrite_noEnqueue(acc, write) ==
    LET fmt == [acc EXCEPT !.writes = Append(@, WorkflowRunWrite(write))] IN
    IF write.channel \in BranchChannels
    THEN [fmt EXCEPT !.branches = Append(@, BranchTarget(write.channel))]
    ELSE IF classify_channel(write.channel) = "state"
    THEN [fmt EXCEPT !.state_after = (write.channel :> write.value) @@ @,
                     !.output_changes = (write.channel :> write.value) @@ @,
                     !.node_name = IF @ = Null /\ HasDot(write.channel)
                                   THEN NodePrefix(write.channel) ELSE @]
    ELSE fmt

\* lines 316-335: one write of a group
ReadWrite(acc, write) ==
    LET fmt == [acc EXCEPT !.writes = Append(@, WorkflowRunWrite(write))] IN
    IF write.channel \in BranchChannels
    THEN [fmt EXCEPT !.branches = Append(@, BranchTarget(write.channel)),
                     !.pending_nodes = Append(@, BranchTarget(write.channel))]
    ELSE IF classify_channel(write.channel) = "state"
    THEN [fmt EXCEPT !.state_after = (write.channel :> write.value) @@ @,
                     !.output_changes = (write.channel :> write.value) @@ @,
                     !.node_name = IF @ = Null /\ HasDot(write.channel)
                                   THEN NodePrefix(write.channel) ELSE @]
    ELSE fmt

RECURSIVE ReadWrites(_, _)
ReadWrites(acc, writes) ==
    IF writes = <<>> THEN acc ELSE ReadWrites(ReadWrite(acc, Head(writes)), Tail(writes))

\* lines 304-346: one group of writes becomes one step
ReadGroup(rs, group, step_number) ==
    LET acc == ReadWrites(
                 [node_name |-> IF rs.pending_nodes # <<>> THEN Head(rs.pending_nodes) ELSE Null,
                  pending_nodes |-> IF rs.pending_nodes # <<>> THEN Tail(rs.pending_nodes) ELSE <<>>,
                  state_after |-> rs.current_state,
                  output_changes |-> EmptyDict,
                  branches |-> <<>>, writes |-> <<>>],
                 group.writes)
    IN [rs EXCEPT !.current_state = acc.state_after,
                  !.pending_nodes = acc.pending_nodes,
                  !.steps = Append(@, [step |-> step_number, node |-> acc.node_name,
                                       task_id |-> group.task_id,
                                       input_state |-> rs.current_state,
                                       output_state |-> acc.output_changes,
                                       branches |-> acc.branches,
                                       writes |-> acc.writes])]

RECURSIVE ReadGroups(_, _, _)
ReadGroups(rs, groups, step_number) ==
    IF groups = <<>> THEN rs
    ELSE ReadGroups(ReadGroup(rs, Head(groups), step_number), Tail(groups), step_number)

\* lines 284-352: one checkpoint of the replay
ReadCheckpoint(rs, checkpoint) ==
    LET filtered_state == filter_state(checkpoint.channel_values)
    IN IF checkpoint.step < 0
       THEN [rs EXCEPT !.current_state = filtered_state,
                       !.initial_state = filtered_state,
                       !.pending_nodes = @ \o extract_branch_targets(checkpoint.pending_writes)]
       ELSE [ReadGroups(rs, group_writes(checkpoint.pending_writes), checkpoint.step)
                EXCEPT !.current_state = filtered_state,
                       !.initial_state = IF DOMAIN @ = {} THEN filtered_state ELSE @]

RECURSIVE ReadCheckpoints(_, _)
ReadCheckpoints(rs, log) ==
    IF log = <<>> THEN rs ELSE ReadCheckpoints(ReadCheckpoint(rs, Head(log)), Tail(log))

\* GET /workflows/{id}/run-details on the oldest-first checkpoint list
workflow_run_details(log) ==
    ReadCheckpoints([initial_state |-> EmptyDict, current_state |-> EmptyDict,
                     pending_nodes |-> <<>>, steps |-> <<>>], log)

\* ------------------------------------------------------- specification
Init ==
    /\ now = 0
    /\ runs = <<>>
    /\ pc = [w \in Workers |-> "claim"]
    /\ job = [w \in Workers |-> NoRow]
    /\ api = {}
    /\ queuedBy = [r \in RunIds |-> "none"]
    /\ checkpoints = [r \in RunIds |-> <<>>]
    /\ runner = [w \in Workers |-> IdleRunner]
    /\ nreq = 0
    /\ templates = {"tplA", "tplB"}
    /\ triggers = <<>>
    /\ sched = [s \in Schedulers |-> IdleSched]
    /\ tapi = {}
    /\ lastOp = Op("init", NoRun, TRUE)

\* The job queue: API run handlers and the worker pool.
Next ==
    \/ Tick
    \/ \E w \in Workers : claim_job(w)
    \/ \E w \in Workers, o \in AllOutcomes : worker_finish(w, o)
    \/ \E id \in RunIds, t \in TemplateNames, i \in StartInputs : start_workflow(id, t, i)
    \/ \E r \in RunIds, i \in InputValues : continue_read(r, i)
    \/ \E req \in api : continue_commit(req)
    \/ \E r \in RunIds : cancel_read(r)
    \/ \E req \in api : cancel_commit(req)
    \/ remove_template("tplA")

Spec == Init /\ [][Next]_vars

\* The job queue with a worker process that stays alive and a store that
\* answers: run_wirl under wait_for(timeout=TASK_TIMEOUT) ends, at the latest
\* by the timeout, and the set_state call that follows completes.
LiveSpec ==
    /\ Init /\ [][Next]_vars
    /\ \A w \in Workers : WF_vars(\E o \in AllOutcomes : worker_finish(w, o))

\* The job queue with worker loops that keep going: a worker at line 20 calls
\* claim_job, and a job that was started ends.
FairSpec ==
    /\ Init /\ [][Next]_vars
    /\ \A w \in Workers : WF_vars(claim_job(w))
    /\ \A w \in Workers : WF_vars(\E o \in AllOutcomes : worker_finish(w, o))

\* The scheduler: trigger API handlers and the ScheduleRunner loops.
SchedNext ==
    \/ \E d \in ClockSteps : clock_advance(d)
    \/ \E name \in Removable : remove_template(name)
    \/ \E s \in Schedulers : process_begin(s)
    \/ \E s \in Schedulers : process_select(s)
    \/ \E s \in Schedulers : process_commit(s)
    \/ \E id \in TriggerIds, request \in CreateRequests : create_workflow_trigger(id, request)
    \/ \E t \in TriggerIds, request \in UpdateRequests : update_read(t, request)
    \/ \E req \in tapi : update_commit(req)

SchedSpec == Init /\ [][SchedNext]_vars

\* The scheduler started on a database that already holds one paused trigger:
\* the row POST /workflow-triggers stores for a body with is_active = false.
PausedTrigger == WorkflowTrigger(1, "paused", "tplA", "*/2 * * * *", "UTC", "{}", FALSE, NullTime)

PausedInit ==
    /\ now = 0
    /\ runs = <<>>
    /\ pc = [w \in Workers |-> "claim"]
    /\ job = [w \in Workers |-> NoRow]
    /\ api = {}
    /\ queuedBy = [r \in RunIds |-> "none"]
    /\ checkpoints = [r \in RunIds |-> <<>>]
    /\ runner = [w \in Workers |-> IdleRunner]
    /\ nreq = 0
    /\ templates = {"tplA", "tplB"}
    /\ triggers = <<PausedTrigger>>
    /\ sched = [s \in Schedulers |-> IdleSched]
    /\ tapi = {}
    /\ lastOp = Op("init", NoRun, TRUE)

\* Bodies of POST /workflow-triggers that ask for an active trigger in UTC
ActiveUtcRequests == {q \in CreateRequests : q.is_active /\ q.timezone = "UTC"}

\* Trigger API handlers and the ScheduleRunner loops, with the template files in place.
PausedNext ==
    \/ \E d \in ClockSteps : clock_advance(d)
    \/ \E s \in Schedulers : process_begin(s)
    \/ \E s \in Schedulers : process_select(s)
    \/ \E s \in Schedulers : process_commit(s)
    \/ \E id \in TriggerIds, request \in ActiveUtcRequests : create_workflow_trigger(id, request)
    \/ \E t \in TriggerIds, request \in UpdateRequests : update_read(t, request)
    \/ \E req \in tapi : update_commit(req)

PausedSpec == PausedInit /\ [][PausedNext]_vars

\* ------------------------------------------------ the loops when the store fails
\* main lines 43-52: an exception leaving one worker task leaves gather, the
\* pool is closed and asyncio.run cancels the tasks that are left.
MainExits == [w \in Workers |-> "stopped"]

\* worker line 20: claim_job raises (the statement is outside the try); its
\* transaction is rolled back.
claim_job_raises(w) ==
    /\ pc[w] = "claim"
    /\ nreq < MaxRequests
    /\ nreq' = nreq + 1
    /\ pc' = MainExits
    /\ lastOp' = [op |-> "claim_job_raises", run |-> NoRun, ok |-> FALSE, arg |-> w]
    /\ UNCHANGED <<now, runs, job, api, queuedBy, templates, trigVars, ckptVars>>

\* worker lines 30-38: a set_state call raises.  The call of line 30 is inside
\* the try: `except Exception` calls set_state(failed, str(exc)), which works
\* or (handler_raises) raises as well.  The calls of lines 35 and 38 are in
\* the except clauses, nothing catches what they raise.
set_state_raises(w, outcome, handler_raises) ==
    /\ outcome \in RunWirlOutcomes(pc[w])
    /\ nreq < MaxRequests
    /\ nreq' = nreq + 1
    /\ LET r == job[w].id IN
       IF outcome.kind = "return" /\ ~handler_raises
       THEN /\ runs' = [runs EXCEPT ![r] = set_state(@, "failed", PyNone, ExcMsg)]
            /\ pc' = [pc EXCEPT ![w] = "claim"]
            /\ job' = [job EXCEPT ![w] = NoRow]
       ELSE /\ pc' = MainExits
            /\ UNCHANGED <<runs, job>>
    /\ lastOp' = [op |-> "set_state_raises", run |-> job[w].id, ok |-> FALSE, arg |-> w]
    /\ UNCHANGED <<now, api, queuedBy, templates, trigVars, ckptVars>>

\* _run lines 69-73: _process_triggers raises; the session is rolled back and
\* closed, the exception is logged and the loop sleeps.
process_raises(s) ==
    /\ sched[s].pc \in {"select", "commit"}
    /\ nreq < MaxRequests
    /\ nreq' = nreq + 1
    /\ sched' = [sched EXCEPT ![s] = IdleSched]
    /\ lastOp' = [op |-> "process_raises", run |-> NoRun, ok |-> FALSE, arg |-> s]
    /\ UNCHANGED <<now, runVars, templates, triggers, tapi, ckptVars>>

\* POST /workflow-triggers with a trigger that fires every minute
EveryMinuteRequests == {q \in ActiveUtcRequests : q.cron = "* * * * *"}

\* One scheduler loop feeding the worker loops, over a store that may fail.
FaultNext ==
    \/ clock_advance(TicksPerMinute)
    \/ \E id \in TriggerIds, request \in EveryMinuteRequests : create_workflow_trigger(id, request)
    \/ process_begin("s1")
    \/ process_select("s1")
    \/ process_commit("s1")
    \/ process_raises("s1")
    \/ \E w \in Workers : claim_job(w)
    \/ \E w \in Workers, o \in AllOutcomes : worker_finish(w, o)
    \/ \E w \in Workers : claim_job_raises(w)
    \/ \E w \in Workers, o \in AllOutcomes, h \in BOOLEAN : set_state_raises(w, o, h)

FaultSpec == Init /\ [][FaultNext]_vars

\* POST /workflows/{id}/continue by a client that has its earlier responses
client_continue(inputs) ==
    /\ api = {}
    /\ nreq <= MaxContinues
    /\ continue_read(1, inputs)

\* One run of the photo notes graph through the worker pool: a client that
\* waits for each response starts and continues it, the workers claim it and
\* call the Runner.
RunnerNext ==
    \/ \E i \in StartInputs : start_workflow(1, "tplA", i)
    \/ \E w \in Workers : claim_job(w)
    \/ \E w \in Workers : run_begin(w)
    \/ \E w \in Workers, found \in BOOLEAN, raises \in BOOLEAN : superstep(w, found, raises)
    \/ \E w \in Workers : run_returns(w)
    \/ \E w \in Workers : run_raises(w)
    \/ \E w \in Workers : run_times_out(w)
    \/ \E i \in StartInputs : client_continue(i)
    \/ \E req \in api : continue_commit(req)

RunnerSpec == Init /\ [][RunnerNext]_vars

\* ------------------------------------------- the Reader on its own
MaxLogLen == 4          \* checkpoints put on the thread after the baseline

\* pending_writes of one checkpoint: the writes of the tasks `a` and `b`
PendingWriteLists(step) ==
    LET a == <<"a", step, "w1">>
        b == <<"b", step, "w1">>
    IN { <<>>,
         << Write(a, "GetPhotos.file_paths", Photos), Write(a, BranchTo("ExtractNote"), <<>>) >>,
         << Write(a, "ExtractNote.notes", <<"note">>), Write(a, BranchTo("AgreeWithUser"), <<>>),
            Write(b, "k", <<"v2">>), Write(b, BranchTo("SaveNotes"), <<>>) >>,
         << Write(a, "__interrupt__", <<"AgreeWithUser">>) >>,
         << Write(a, "AgreeWithUser.comments_from_user", <<"ok">>) >>,
         << Write(a, "k", <<"v2">>) >> }

\* The first Put on a thread: the baseline checkpoint
put_baseline(tid, params) ==
    /\ checkpoints[tid] = <<>>
    /\ checkpoints' = [checkpoints EXCEPT ![tid] =
          Put(@, Checkpoint(-1, ParamsValues(params),
                            <<Write(<<"__start__", -1, "w1">>, BranchTo(EntryNode), <<>>)>>))]
    /\ lastOp' = Op("put", tid, TRUE)
    /\ UNCHANGED <<now, runVars, nreq, templates, trigVars, runner>>

\* A later Put: step = previous + 1, the channel values are those of the
\* previous checkpoint with its pending writes applied
put_checkpoint(tid, pending_writes) ==
    /\ checkpoints[tid] # <<>>
    /\ Len(checkpoints[tid]) <= MaxLogLen
    /\ LET latest == checkpoints[tid][Len(checkpoints[tid])] IN
       /\ pending_writes \in PendingWriteLists(latest.step + 1)
       /\ checkpoints' = [checkpoints EXCEPT ![tid] =
             Put(@, Checkpoint(latest.step + 1,
                               ApplyWrites(latest.channel_values, latest.pending_writes),
                               pending_writes))]
    /\ lastOp' = Op("put", tid, TRUE)
    /\ UNCHANGED <<now, runVars, nreq, templates, trigVars, runner>>

\* GET /workflows/{id}/run-details
get_run_details(tid) ==
    /\ lastOp' = [op |-> "run_details", run |-> tid, ok |-> TRUE, arg |-> Null,
                  details |-> workflow_run_details(checkpoints[tid])]
    /\ UNCHANGED <<now, runVars, nreq, templates, trigVars, ckptVars>>

ReaderNext ==
    \/ \E params \in {PyNone, JsonLoads("{k:v}")} : put_baseline(1, params)
    \/ \E step \in 0..MaxLogLen : \E pw \in PendingWriteLists(step) : put_checkpoint(1, pw)
    \/ get_run_details(1)

ReaderSpec == Init /\ [][ReaderNext]_vars

\* ------------------------------------- claim_job, statement and commit
\* claim_job runs one statement inside conn.transaction(): the row it selected
\* FOR UPDATE stays locked, and its UPDATE invisible to others, until the
\* transaction commits on leaving the `async with`.  Here the two are separate
\* steps; between them the worker is at "claiming" and `job` holds the row
\* version it wrote.
claim_locked == { job[w].id : w \in { v \in Workers : pc[v] = "claiming" } }

\* a select that takes locked rows as well
SkipLocked_none(candidates) == candidates

\* claim_job line 26: FOR UPDATE SKIP LOCKED
SkipLocked(candidates) == candidates \ claim_locked

\* claim_job lines 18-37: conn.fetchrow(...)
claim_job_execute(w) ==
    /\ pc[w] = "claim"
    /\ LET next == SkipLocked(ClaimCandidates) IN
       IF next # {}
       THEN /\ job' = [job EXCEPT ![w] = ClaimUpdate(runs[Min(next)], w)]
            /\ pc' = [pc EXCEPT ![w] = "claiming"]
            /\ lastOp' = [op |-> "claim_job_execute", run |-> Min(next), ok |-> TRUE, arg |-> w]
       ELSE /\ UNCHANGED <<job, pc>>
            /\ lastOp' = [op |-> "claim_job_execute", run |-> NoRun, ok |-> FALSE, arg |-> w]
    /\ UNCHANGED <<now, runs, api, queuedBy, nreq, templates, trigVars, ckptVars>>

\* claim_job lines 17 and 39: the transaction commits, return dict(row)
claim_job_commit(w) ==
    /\ pc[w] = "claiming"
    /\ runs' = [runs EXCEPT ![job[w].id] = job[w]]
    /\ pc' = [pc EXCEPT ![w] = IF RunWorkflowCall(job[w]).made THEN "exec" ELSE "raise"]
    /\ queuedBy' = [queuedBy EXCEPT ![job[w].id] = "claimed"]
    /\ lastOp' = [op |-> "claim_job_commit", run |-> job[w].id, ok |-> TRUE, arg |-> w]
    /\ UNCHANGED <<now, job, api, nreq, templates, trigVars, ckptVars>>

\* set_state: its UPDATE waits for the row lock of a claim in flight
set_state_waits(w, outcome) ==
    /\ pc[w] \in {"exec", "raise"}
    /\ job[w].id \notin claim_locked
    /\ worker_finish(w, outcome)

\* continue_workflow line 398: the UPDATE of db.commit() waits as well
continue_commit_waits(req) ==
    /\ req.run \notin claim_locked
    /\ continue_commit(req)

\* How the jobs of the claim specification end
ClaimOutcomes == { o \in Outcomes : o.kind = "timeout" \/ "__interrupt__" \in o.result.keys }

\* The worker loops with claim_job in two steps, runs being started, finished
\* and continued around them.
ClaimNext ==
    \/ Tick
    \/ \E id \in RunIds, i \in StartInputs : start_workflow(id, "tplA", i)
    \/ \E w \in Workers : claim_job_execute(w)
    \/ \E w \in Workers : claim_job_commit(w)
    \/ \E w \in Workers, o \in ClaimOutcomes : set_state_waits(w, o)
    \/ \E r \in RunIds, i \in StartInputs : continue_read(r, i)
    \/ \E req \in api : continue_commit_waits(req)

ClaimSpec == Init /\ [][ClaimNext]_vars

\* calculate_next_run on its own: every instant of the first four minutes, every
\* cron and zone.
Instants == 0..(4 * TicksPerMinute - 1)

\* One call calculate_next_run(cron, tz_name, from_time = now)
call_calculate_next_run(cron, tz_name) ==
    /\ LET res == calculate_next_run(cron, tz_name, now) IN
       lastOp' = [op |-> "calculate_next_run", run |-> NoRun, ok |-> res.raised = Null,
                  arg |-> cron, tz |-> tz_name, from |-> now, at |-> res.at]
    /\ UNCHANGED <<now, runVars, nreq, templates, trigVars, ckptVars>>

CronInit ==
    /\ now \in Instants
    /\ runs = <<>>
    /\ pc = [w \in Workers |-> "claim"]
    /\ job = [w \in Workers |-> NoRow]
    /\ api = {}
    /\ queuedBy = [r \in RunIds |-> "none"]
    /\ checkpoints = [r \in RunIds |-> <<>>]
    /\ runner = [w \in Workers |-> IdleRunner]
    /\ nreq = 0
    /\ templates = {"tplA", "tplB"}
    /\ triggers = <<>>
    /\ sched = [s \in Schedulers |-> IdleSched]
    /\ tapi = {}
    /\ lastOp = Op("init", NoRun, TRUE)

CronNext ==
    \/ \E d \in ClockSteps : clock_advance(d)
    \/ \E cron \in Crons, tz_name \in Zones : call_calculate_next_run(cron, tz_name)

CronSpec == CronInit /\ [][CronNext]_vars

\* ------------------------------------------------------------- claims
Terminal == {"succeeded", "failed", "canceled"}

\* The step just taken was a successful claim_job returning run r.
Claimed(r) == lastOp'.op = "claim_job" /\ lastOp'.ok /\ lastOp'.run = r

C2_CanceledAbsorbing ==
    [][\A r \in DOMAIN runs :
          runs[r].state = "canceled" =>
             runs'[r].state = "canceled" /\ runs'[r].result = runs[r].result]_vars

\* C3: every change of a run's state is an edge of the run state machine, made
\* by the operation that owns the edge.
C3_OnlyStateMachineEdges ==
    [][\A r \in DOMAIN runs :
          runs'[r].state # runs[r].state =>
            \/ /\ runs[r].state = "queued" /\ runs'[r].state = "running"
               /\ lastOp'.op = "claim_job"
            \/ /\ runs[r].state = "running"
               /\ runs'[r].state \in {"succeeded", "failed", "needs_input"}
               /\ lastOp'.op = "set_state"
            \/ /\ runs[r].state \in {"needs_input", "failed"} /\ runs'[r].state = "queued"
               /\ lastOp'.op = "continue_commit"
            \/ /\ runs[r].state = "running" /\ runs'[r].state = "canceled"
               /\ lastOp'.op = "cancel_commit"]_vars

\* C4: set_state on a run whose state is canceled leaves the whole row as it was.
C4_SetStateOnCanceledIsNoop ==
    [][(lastOp'.op = "set_state" /\ runs[lastOp'.run].state = "canceled")
          => runs'[lastOp'.run] = runs[lastOp'.run]]_vars

\* A worker that returned normally finalized a run the API had canceled.
C4_Witness ==
    /\ lastOp.op = "set_state" /\ lastOp.arg = "return" /\ ~lastOp.ok
    /\ runs[lastOp.run].state = "canceled"
    /\ runs[lastOp.run].result = "{}"

\* C5: a running run has worker_id, started_at and heartbeat_at, and a run
\* enters running only by claim_job from queued.
C5_RunningOnlyByClaim ==
    [][\A r \in DOMAIN runs' :
          /\ runs'[r].state = "running" =>
                /\ runs'[r].worker_id # Null
                /\ runs'[r].started_at # NullTime
                /\ runs'[r].heartbeat_at # NullTime
          /\ (runs'[r].state = "running" /\ (r \notin DOMAIN runs \/ runs[r].state # "running")) =>
                /\ r \in DOMAIN runs
                /\ runs[r].state = "queued"
                /\ lastOp'.op = "claim_job"]_vars

\* A run has just entered running.
C5_Witness ==
    /\ lastOp.op = "claim_job" /\ lastOp.ok
    /\ runs[lastOp.run].state = "running"
    /\ runs[lastOp.run].worker_id \in Workers

\* C6: a run in a terminal state (succeeded, failed, canceled) has finished_at set.
C6_TerminalHasFinishedAt ==
    \A r \in DOMAIN runs : runs[r].state \in Terminal => runs[r].finished_at # NullTime

\* C7: set_state called without a result (timeout or exception, result = None)
\* leaves the stored result unchanged.
C7_NullResultKeepsStored ==
    [][(lastOp'.op = "set_state" /\ lastOp'.arg \in {"timeout", "exception"})
          => runs'[lastOp'.run].result = runs[lastOp'.run].result]_vars

\* The step just taken was the commit of a scheduler tick.
Ticked == lastOp'.op = "process_triggers"

Resolves(t) == get_template(triggers[t].template_name) # NoTemplate

\* The runs a tick inserted are exactly one per acted trigger whose template
\* resolves, as lastOp'.enq pairs them.
OneRunEach ==
    /\ DOMAIN lastOp'.enq = {t \in lastOp'.acted : Resolves(t)}
    /\ \A t, u \in DOMAIN lastOp'.enq : lastOp'.enq[t] = lastOp'.enq[u] => t = u
    /\ DOMAIN runs' \ DOMAIN runs = {lastOp'.enq[t] : t \in DOMAIN lastOp'.enq}

RunFor(t) == runs'[lastOp'.enq[t]]

\* The run a tick inserted for trigger t is the run the trigger describes.
RunMatches(t) ==
    /\ RunFor(t).state = "queued"
    /\ RunFor(t).id = lastOp'.enq[t]
    /\ RunFor(t).thread_id = RunFor(t).id
    /\ RunFor(t).inputs = triggers[t].inputs
    /\ RunFor(t).graph_name = get_template(triggers[t].template_name).id

\* C8 as stated: a tick inserts, for each due trigger whose template resolves,
\* exactly one queued run with thread_id = id, the trigger's inputs and the
\* template's id, and sets last_run_at = now and last_error = null.
C8_TickEnqueuesOneRunEach ==
    [][Ticked =>
         /\ \A t \in lastOp'.acted : IsDue(triggers[t], lastOp'.now)
         /\ OneRunEach
         /\ \A t \in lastOp'.acted : Resolves(t) =>
               /\ RunMatches(t)
               /\ triggers'[t].last_run_at = lastOp'.now
               /\ triggers'[t].last_error = Null]_vars

\* C8 amended: as C8, except that last_error is null only when the next firing
\* could be computed; when computing it raises, last_error is the error text.
C8_TickEnqueuesOneRunEach_Amended ==
    [][Ticked =>
         /\ \A t \in lastOp'.acted : IsDue(triggers[t], lastOp'.now)
         /\ OneRunEach
         /\ \A t \in lastOp'.acted : Resolves(t) =>
               /\ RunMatches(t)
               /\ triggers'[t].last_run_at = lastOp'.now
               /\ LET next == calculate_next_run(triggers[t].cron, triggers[t].timezone, lastOp'.now)
                  IN  triggers'[t].last_error = next.raised]_vars

\* One tick acted on two due triggers and gave each its own run with its own inputs.
C8_Witness ==
    /\ lastOp.op = "process_triggers"
    /\ DOMAIN lastOp.enq = {1, 2}
    /\ runs[lastOp.enq[1]].inputs = "{k:v}"
    /\ runs[lastOp.enq[2]].inputs = "{}"
    /\ triggers[1].last_run_at = lastOp.now /\ triggers[2].last_run_at = lastOp.now

\* C9: a tick enqueues exactly one run for a trigger it acts on, however far
\* back the trigger's next_run_at lies, and a tick at an instant before a
\* trigger's next_run_at enqueues no run for it.
C9_MissedFiringsCoalesce ==
    [][Ticked =>
         /\ OneRunEach
         /\ \A t \in DOMAIN triggers :
               (triggers[t].next_run_at = NullTime \/ lastOp'.now < triggers[t].next_run_at)
                  => t \notin lastOp'.acted]_vars

\* A trigger that had missed at least three firings got one run from one tick.
C9_Witness ==
    /\ lastOp.op = "process_triggers"
    /\ \E t \in DOMAIN lastOp.enq :
          /\ lastOp.now - lastOp.due[t] >= 2 * CronStep(triggers[t].cron) * TicksPerMinute
          /\ Cardinality(DOMAIN runs) = 1
          /\ triggers[t].next_run_at > lastOp.now

\* C10: after a tick at instant t acted on a trigger, the trigger's
\* next_run_at is greater than t, or it is null and the trigger is inactive.
C10_NextRunAfterTick ==
    [][Ticked =>
         \A t \in lastOp'.acted :
            \/ triggers'[t].next_run_at # NullTime /\ triggers'[t].next_run_at > lastOp'.now
            \/ triggers'[t].next_run_at = NullTime /\ ~triggers'[t].is_active]_vars

\* A tick in the middle of a minute moved a trigger that was several firings
\* late to the next minute after the tick.
C10_Witness ==
    /\ lastOp.op = "process_triggers"
    /\ lastOp.now % TicksPerMinute # 0
    /\ \E t \in lastOp.acted :
          /\ triggers[t].is_active
          /\ lastOp.due[t] + TicksPerMinute < lastOp.now
          /\ triggers[t].next_run_at > lastOp.now

\* C11: in every reachable state, a trigger with is_active = false has
\* next_run_at = null.
C11_InactiveHasNoNextRun ==
    \A t \in DOMAIN triggers : ~triggers[t].is_active => triggers[t].next_run_at = NullTime

\* C12: a tick that acts on a due trigger whose template does not resolve
\* inserts no run for it, sets is_active = false and next_run_at = null,
\* records the "not found" last_error, leaves last_run_at unchanged, and still
\* gives every other acted trigger whose template resolves its run.
C12_MissingTemplateDisables ==
    [][Ticked =>
         \A t \in lastOp'.acted : ~Resolves(t) =>
            /\ t \notin DOMAIN lastOp'.enq
            /\ DOMAIN runs' \ DOMAIN runs = {lastOp'.enq[u] : u \in DOMAIN lastOp'.enq}
            /\ ~triggers'[t].is_active
            /\ triggers'[t].next_run_at = NullTime
            /\ triggers'[t].last_error = "Template 'name' not found"
            /\ triggers'[t].last_run_at = triggers[t].last_run_at
            /\ \A u \in lastOp'.acted : Resolves(u) =>
                  /\ u \in DOMAIN lastOp'.enq
                  /\ triggers'[u].last_run_at = lastOp'.now]_vars

\* One tick acted on two due triggers: the first lost its template and was
\* disabled without a run, the second got its run.
C12_Witness ==
    /\ lastOp.op = "process_triggers"
    /\ lastOp.acted = {1, 2}
    /\ DOMAIN lastOp.enq = {2}
    /\ ~triggers[1].is_active /\ triggers[1].last_error = "Template 'name' not found"
    /\ triggers[2].last_run_at = lastOp.now
    /\ Cardinality(DOMAIN runs) = 1

\* The next firing of trigger t cannot be computed at the tick's now.
NextRaises(t) ==
    calculate_next_run(triggers[t].cron, triggers[t].timezone, lastOp'.now).raised # Null

\* C13: when computing the next firing raises during a tick, the trigger ends
\* the tick inactive, with next_run_at = null and last_error equal to the
\* error text; the run inserted for the firing is committed, and every other
\* acted trigger is still handled (a run if its template resolves).
C13_NextRunErrorDisables ==
    [][Ticked =>
         \A t \in lastOp'.acted : (Resolves(t) /\ NextRaises(t)) =>
            /\ ~triggers'[t].is_active
            /\ triggers'[t].next_run_at = NullTime
            /\ triggers'[t].last_error =
                  calculate_next_run(triggers[t].cron, triggers[t].timezone, lastOp'.now).raised
            /\ t \in DOMAIN lastOp'.enq
            /\ lastOp'.enq[t] \in DOMAIN runs' \ DOMAIN runs
            /\ runs'[lastOp'.enq[t]].state = "queued"
            /\ \A u \in lastOp'.acted \ {t} :
                  /\ Resolves(u) => u \in DOMAIN lastOp'.enq /\ triggers'[u].last_run_at = lastOp'.now
                  /\ (Resolves(u) /\ ~NextRaises(u)) => triggers'[u].next_run_at > lastOp'.now]_vars

\* One tick acted on two due triggers: the first had a cron that does not
\* parse and was disabled after its run was inserted, the second was rescheduled.
C13_Witness ==
    /\ lastOp.op = "process_triggers"
    /\ lastOp.acted = {1, 2}
    /\ DOMAIN lastOp.enq = {1, 2}
    /\ Cardinality(DOMAIN runs) = 2
    /\ ~triggers[1].is_active /\ triggers[1].next_run_at = NullTime
    /\ triggers[1].last_error = "CronExpressionError"
    /\ triggers[2].is_active /\ triggers[2].next_run_at > lastOp.now

\* C14: a tick does not act on a trigger that is inactive, or has a null
\* next_run_at, or has next_run_at later than the tick's now: it inserts no run
\* for it and leaves every field of the trigger unchanged.
C14_TickSkipsNotDue ==
    [][Ticked =>
         \A t \in DOMAIN triggers :
            (\/ ~triggers[t].is_active
             \/ triggers[t].next_run_at = NullTime
             \/ triggers[t].next_run_at > lastOp'.now)
               => /\ t \notin lastOp'.acted
                  /\ t \notin DOMAIN lastOp'.enq
                  /\ triggers'[t] = triggers[t]]_vars

\* A tick gave the due trigger its run and passed over a paused trigger and
\* nothing else was inserted.
C14_Witness ==
    /\ lastOp.op = "process_triggers"
    /\ lastOp.acted = {1}
    /\ 2 \in DOMAIN triggers
    /\ ~triggers[2].is_active /\ triggers[2].last_run_at = NullTime
    /\ Cardinality(DOMAIN runs) = 1

\* C15: with several scheduler instances ticking concurrently, a trigger is
\* acted on by at most one of them per firing: the acting tick holds the row
\* alone and enqueues one run; it moves next_run_at past the firing it served,
\* and every other tick whose now is not later finds the trigger not due.
C15_OneSchedulerPerFiring ==
    [][Ticked =>
         /\ OneRunEach
         /\ \A t \in lastOp'.acted :
               /\ \A s \in Schedulers \ {lastOp'.arg} : t \notin sched[s].locked
               /\ \/ triggers'[t].next_run_at = NullTime
                  \/ triggers'[t].next_run_at > triggers[t].next_run_at
               /\ \A s \in Schedulers \ {lastOp'.arg} :
                     (sched[s].pc = "select" /\ sched[s].now <= lastOp'.now)
                        => ~IsDue(triggers'[t], sched[s].now)]_vars

\* Two instances ticked at the same time on one due trigger: one of them
\* enqueued the run while the other, whose select skipped the locked row,
\* holds nothing.
C15_Witness ==
    /\ lastOp.op = "process_triggers"
    /\ lastOp.acted = {1}
    /\ nreq = 2
    /\ Cardinality(DOMAIN runs) = 1
    /\ \E s \in Schedulers \ {lastOp.arg} :
          /\ sched[s].pc = "commit"
          /\ sched[s].locked = {}
          /\ sched[s].now >= lastOp.due[1]

\* Instant x, seen in the zone, is the start of a minute the cron matches.
Matching(cron, tz_name, x) ==
    /\ AsTimezone(x, tz_name) % TicksPerMinute = 0
    /\ CronMatches(cron, AsTimezone(x, tz_name) \div TicksPerMinute)

\* C16: for a valid cron, a known zone and an instant t, calculate_next_run
\* returns an instant r > t that matches the cron in the zone, with no matching
\* instant strictly between t and r; every instant of t's minute gives the same
\* r, and a t that itself matches is not returned.
C16_NextRunIsNextMatch ==
    (lastOp.op = "calculate_next_run" /\ CronValid(lastOp.arg) /\ ZoneKnown(lastOp.tz)) =>
        LET t == lastOp.from
            r == lastOp.at
        IN  /\ lastOp.ok
            /\ r > t
            /\ Matching(lastOp.arg, lastOp.tz, r)
            /\ \A x \in (t + 1)..(r - 1) : ~Matching(lastOp.arg, lastOp.tz, x)
            /\ \A t2 \in 0..(t + TicksPerMinute) :
                  t2 \div TicksPerMinute = t \div TicksPerMinute
                     => calculate_next_run(lastOp.arg, lastOp.tz, t2).at = r
            /\ Matching(lastOp.arg, lastOp.tz, t) => r # t

\* A call in the middle of a minute, in a zone ahead of UTC, for a cron that
\* skips the following minute.
C16_Witness ==
    /\ lastOp.op = "calculate_next_run" /\ lastOp.ok
    /\ lastOp.arg = "*/2 * * * *" /\ lastOp.tz = "Etc/GMT-1"
    /\ lastOp.from % TicksPerMinute # 0
    /\ lastOp.at > lastOp.from + TicksPerMinute

\* C17: a cancel request on a run that is not running is refused (400) and
\* leaves every run row unchanged; a cancel request is accepted only on a
\* running run, and its commit sets that run's state to canceled and no other field.
C17_CancelOnlyRunning ==
    [][/\ lastOp'.op = "cancel_400" =>
             /\ runs[lastOp'.run].state \in
                   {"queued", "needs_input", "failed", "succeeded", "canceled"}
             /\ runs' = runs /\ api' = api
       /\ lastOp'.op = "cancel_read" =>
             /\ runs[lastOp'.run].state = "running"
             /\ runs' = runs
       /\ lastOp'.op = "cancel_commit" =>
             /\ \A req \in api \ api' : req.state = "running"
             /\ runs' = [runs EXCEPT ![lastOp'.run].state = "canceled"]]_vars

\* A cancel request on a run that had already been canceled was refused.
C17_Witness ==
    /\ lastOp.op = "cancel_400"
    /\ runs[lastOp.run].state = "canceled"
    /\ runs[lastOp.run].attempt = 1

\* C18: a continue request on a run that is queued, running, succeeded or
\* canceled is refused (400) and leaves every run row unchanged; so a continue
\* request made right after a committed continue is refused, and the run
\* stays queued as the first continue left it.
C18_ContinueRefusedElsewhere ==
    [][/\ lastOp'.op = "continue_400" =>
             /\ runs[lastOp'.run].state \in {"queued", "running", "succeeded", "canceled"}
             /\ runs' = runs /\ api' = api
       /\ lastOp'.op = "continue_read" =>
             /\ runs[lastOp'.run].state \in {"needs_input", "failed"}
             /\ runs' = runs
       /\ (lastOp.op = "continue_commit" /\ lastOp'.op \in {"continue_read", "continue_400"}
              /\ lastOp'.run = lastOp.run) =>
             /\ lastOp'.op = "continue_400"
             /\ runs'[lastOp.run].state = "queued"
             /\ queuedBy' = queuedBy]_vars

\* A second continue request, made right after the continue of a run that
\* needed input, was refused; the run is queued with the first answer.
C18_Witness ==
    /\ lastOp.op = "continue_400"
    /\ runs[lastOp.run].state = "queued"
    /\ runs[lastOp.run].attempt = 1
    /\ runs[lastOp.run].resume_payload = "{answer:{k:v}}"
    /\ queuedBy[lastOp.run] = "continue"
    /\ api = {}

\* C19: the commit of a continue request that found the run in needs_input,
\* with inputs v, leaves resume_payload = JSON({"answer": v}) and state =
\* queued; the worker that claims the run next gets the stored payload.
C19_ContinueStoresAnswer ==
    [][/\ lastOp'.op = "continue_commit" =>
             \A req \in api \ api' : req.state = "needs_input" =>
                /\ runs'[req.run].resume_payload = AnswerPayload(req.inputs)
                /\ runs'[req.run].state = "queued"
       /\ \A r \in DOMAIN runs : Claimed(r) =>
             \A w \in Workers : job'[w] # job[w] =>
                job'[w].resume_payload = runs[r].resume_payload]_vars

\* C20: the commit of a continue request that found the run in failed sets
\* the state to queued and changes no other field of the run (resume_payload,
\* attempt, inputs, result, error keep their values).
C20_ContinueFailedKeepsRow ==
    [][lastOp'.op = "continue_commit" =>
          \A req \in api \ api' : req.state = "failed" =>
             runs' = [runs EXCEPT ![req.run].state = "queued"]]_vars

\* A run that had been answered once and then timed out was continued: it is
\* queued again with the answer and the error it had.
C20_Witness ==
    /\ lastOp.op = "continue_commit"
    /\ api = {} /\ nreq = 3
    /\ runs[lastOp.run].state = "queued"
    /\ runs[lastOp.run].attempt = 2
    /\ runs[lastOp.run].error = TimeoutMsg
    /\ runs[lastOp.run].resume_payload = "{answer:{k:v}}"

\* The step just taken was the worker's set_state after the Runner returned,
\* on a run that was not canceled.
ReturnedNormally ==
    /\ lastOp'.op = "set_state" /\ lastOp'.arg = "return"
    /\ runs[lastOp'.run].state # "canceled"

\* The state run_wirl derives from the returned result is the state written.
FinalizedByInterruptKey ==
    /\ runs'[lastOp'.run].state \in {"succeeded", "needs_input"}
    /\ runs'[lastOp'.run].state = "succeeded" <=> "__interrupt__" \notin lastOp'.res.keys
    /\ runs'[lastOp'.run].error = Null

\* C21 as stated: when the Runner returns for a claimed run that is not
\* canceled, the worker finalizes it as succeeded iff the result has no
\* __interrupt__ key, as needs_input otherwise, and stores the returned result.
C21_ReturnFinalizes ==
    [][ReturnedNormally =>
          /\ FinalizedByInterruptKey
          /\ lastOp'.res.kind = "dict"
          /\ runs'[lastOp'.run].result = JsonDumps(lastOp'.res)]_vars

\* C21 amended: as C21, except that the stored result is the JSON encoding of
\* the returned result when json.dumps accepts it, and the empty object {}
\* when it does not.
C21_ReturnFinalizes_Amended ==
    [][ReturnedNormally =>
          /\ FinalizedByInterruptKey
          /\ runs'[lastOp'.run].result =
                IF lastOp'.res.kind = "dict" THEN JsonDumps(lastOp'.res) ELSE "{}"]_vars

\* The Runner returned a result that json.dumps rejects, right after the run
\* had been answered: the run succeeded and its stored result is {}.
C21_Witness ==
    /\ lastOp.op = "set_state" /\ lastOp.arg = "return" /\ lastOp.ok
    /\ lastOp.res.kind = "dict_unserializable"
    /\ runs[lastOp.run].state = "succeeded"
    /\ runs[lastOp.run].attempt = 2
    /\ runs[lastOp.run].result = "{}"

\* C22: when the execution of a claimed run that is not canceled does not end
\* normally, the worker stores failed with a non-null error: the timeout
\* message after a timeout, the text of the exception otherwise ("Template not
\* found" when the template is missing), so the failing job does not leave the
\* run in running.
EndedAbnormally ==
    /\ lastOp'.op = "set_state" /\ lastOp'.arg \in {"timeout", "exception"}
    /\ runs[lastOp'.run].state # "canceled"

C23_ResumeRule ==
    [][lastOp'.op = "claim_job" /\ lastOp'.ok /\ lastOp'.call.made =>
          LET row == runs'[lastOp'.run]
              call == lastOp'.call IN
          /\ call.resume = row.resume_payload
          /\ call.thread_id = row.id
          /\ (row.resume_payload # Null \/ row.attempt > 1) => call.params = PyNone
          /\ ~(row.resume_payload # Null \/ row.attempt > 1) => call.params = JsonLoads(row.inputs)
          /\ call.params # PyNone => row.attempt = 1 /\ row.resume_payload = Null]_vars

C23_Witness ==
    /\ lastOp.op = "claim_job" /\ lastOp.ok /\ lastOp.call.made
    /\ lastOp.call.params = PyNone /\ lastOp.call.resume = Null
    /\ runs[lastOp.run].attempt = 2
    /\ \E r \in DOMAIN runs : r # lastOp.run /\ runs[r].attempt = 1 /\ runs[r].state = "running"

\* C30: max_attempts gates retries: continue from failed keeps attempt, a run
\* whose attempt has reached max_attempts is not claimed again, and so attempt
\* never exceeds max_attempts.
C30_AttemptAtMostMax ==
    \A r \in DOMAIN runs : runs[r].attempt <= runs[r].max_attempts

\* C29: with the worker alive and the store reachable, every run that enters
\* running eventually leaves it; a job that does not finish by itself is ended
\* by the timeout and stored as failed.
IsRunning(r) == r \in DOMAIN runs /\ runs[r].state = "running"

C29_RunningEventuallyLeaves ==
    \A r \in RunIds : IsRunning(r) ~> ~IsRunning(r)

C29_Witness ==
    /\ lastOp.op = "set_state" /\ lastOp.arg = "timeout" /\ lastOp.ok
    /\ runs[lastOp.run].state = "failed"
    /\ runs[lastOp.run].error = TimeoutMsg
    /\ \A w \in Workers : pc[w] = "claim"

\* C24: an error raised inside one iteration of a background loop does not
\* end the loop: after a store failure during claim, during set_state or
\* during trigger processing every worker loop and every scheduler loop is
\* still there to iterate.
StoreFailed == lastOp'.op \in {"claim_job_raises", "set_state_raises", "process_raises"}

C24_LoopsSurviveErrors ==
    [][StoreFailed =>
          /\ \A w \in Workers : pc'[w] # "stopped"
          /\ \A s \in Schedulers : sched'[s].pc # "stopped"]_vars

\* C25: when a node signals an interrupt the Runner puts a checkpoint with a
\* pending write on __interrupt__, runs no further node in that call and
\* returns a result with the key __interrupt__, so the worker stores
\* needs_input; a call in which no node signals an interrupt returns a result
\* without that key.
SignalsInterrupt(w) ==
    /\ lastOp'.op = "superstep" /\ lastOp'.ok /\ lastOp'.arg = w
    /\ Head(runner[w].queue) \in InterruptNodes
    /\ runner[w].inject # Head(runner[w].queue)

LastPut(w) == checkpoints'[runner[w].thread][Len(checkpoints'[runner[w].thread])]

ReturnsToWorker(w) == lastOp'.op = "set_state" /\ lastOp'.arg = "return" /\ lastOp'.w = w

C25_InterruptSuspends ==
    [][\A w \in Workers :
          /\ SignalsInterrupt(w) =>
                /\ Len(checkpoints'[runner[w].thread]) = Len(checkpoints[runner[w].thread]) + 1
                /\ \E i \in 1..Len(LastPut(w).pending_writes) :
                       LastPut(w).pending_writes[i].channel = "__interrupt__"
                /\ runner'[w].executed = Append(runner[w].executed, Head(runner[w].queue))
                /\ runner'[w].phase = "returned"
                /\ "__interrupt__" \in PyResult(runner'[w]).keys
          /\ runner[w].phase = "returned" /\ runner'[w].call = runner[w].call =>
                runner'[w].executed = runner[w].executed
          /\ ReturnsToWorker(w) =>
                /\ "__interrupt__" \in lastOp'.res.keys <=>
                       \E i \in 1..Len(runner[w].executed) :
                          /\ runner[w].executed[i] \in InterruptNodes
                          /\ runner[w].executed[i] # runner[w].resumed
                /\ "__interrupt__" \in lastOp'.res.keys =>
                       runs'[lastOp'.run].state = "needs_input"]_vars

C25_Witness ==
    /\ lastOp.op = "set_state" /\ lastOp.arg = "return" /\ lastOp.ok
    /\ runs[lastOp.run].state = "needs_input"
    /\ runner[lastOp.w].interrupted
    /\ runner[lastOp.w].executed = <<"GetPhotos", "ExtractNote", "ExtractNote", "AgreeWithUser">>
    /\ \E i \in 1..Len(checkpoints[lastOp.run]) :
          checkpoints[lastOp.run][i].pending_writes[1].channel = "__interrupt__"

\* C26: after a run in needs_input is continued and claimed again, the Runner
\* starts at the interrupted node with the answer as its value and without a
\* new interrupt, runs none of the nodes that completed before the interrupt,
\* and, if no later node interrupts or raises, the run becomes succeeded with
\* the outputs of the nodes after the interrupt in its final state.
ContinuedFromNeedsInput(row) ==
    row.resume_payload # Null /\ row.result = "{out,__interrupt__}"

BeforeInterrupt == {"GetPhotos", "ExtractNote"}

C26_ResumeContinues ==
    [][\A w \in Workers :
          /\ lastOp'.op = "run_workflow" /\ lastOp'.arg = w /\ ContinuedFromNeedsInput(job[w]) =>
                /\ runner'[w].inject \in InterruptNodes
                /\ runner'[w].queue = <<runner'[w].inject>>
                /\ runner'[w].resume = job[w].resume_payload
          /\ ReturnsToWorker(w) /\ ContinuedFromNeedsInput(job[w]) =>
                /\ \A i \in 1..Len(runner[w].executed) : runner[w].executed[i] \notin BeforeInterrupt
                /\ ~runner[w].interrupted =>
                      /\ runs'[lastOp'.run].state = "succeeded"
                      /\ "SaveNotes.notes_file_path" \in DOMAIN Projected(runner[w].values)
                      /\ runner[w].values["AgreeWithUser.comments_from_user"]
                            = <<job[w].resume_payload>>]_vars

\* C27: for a run that completes successfully, the initial_state of the
\* Run-Details Reader overlaid with the output_state of its steps in order is
\* the final public state of the run.
RECURSIVE Overlay(_, _)
Overlay(state, steps) ==
    IF steps = <<>> THEN state ELSE Overlay(Head(steps).output_state @@ state, Tail(steps))

Replayed(r) ==
    Overlay(workflow_run_details(checkpoints[r]).initial_state,
            workflow_run_details(checkpoints[r]).steps)

C27_ReplayGivesFinalState ==
    lastOp.op = "set_state" /\ lastOp.arg = "return" /\ lastOp.ok
        /\ runs[lastOp.run].state = "succeeded"
    => Replayed(lastOp.run) = Projected(runner[lastOp.w].values)

\* C28: in one thread the checkpoint log only grows, the first checkpoint has
\* step -1 and the steps increase strictly in append order, also across an
\* interrupt and its resume and across a retry after a failure or a timeout.
StepsIncrease(log) ==
    /\ log # <<>> => log[1].step = -1
    /\ \A i \in 1..(Len(log) - 1) : log[i].step < log[i + 1].step

C28_StepsStrictlyIncrease ==
    \A r \in RunIds : StepsIncrease(checkpoints[r])


\* C31: a scheduler tick changes, on a trigger, only next_run_at, last_run_at,
\* last_error and is_active, and is_active only from true to false; name,
\* template_name, cron, timezone and inputs stay as they are, no trigger is
\* added or removed, and every run that existed before the tick is still
\* there, unchanged.
FrameOfTick(old, new) ==
    /\ new.id = old.id
    /\ new.name = old.name
    /\ new.template_name = old.template_name
    /\ new.cron = old.cron
    /\ new.timezone = old.timezone
    /\ new.inputs = old.inputs
    /\ new.is_active # old.is_active => (old.is_active /\ ~new.is_active)

C31_TickFrame ==
    [][lastOp'.op = "process_triggers" =>
          /\ DOMAIN triggers' = DOMAIN triggers
          /\ \A t \in DOMAIN triggers : FrameOfTick(triggers[t], triggers'[t])
          /\ \A r \in DOMAIN runs : r \in DOMAIN runs' /\ runs'[r] = runs[r]]_vars

\* A tick has just disabled a trigger and enqueued nothing for it, while a run
\* of an earlier tick is in the table.
C31_Witness ==
    /\ lastOp.op = "process_triggers"
    /\ \E t \in lastOp.acted : ~triggers[t].is_active /\ triggers[t].last_error # Null
    /\ \E r \in DOMAIN runs : \A t \in DOMAIN lastOp.enq : lastOp.enq[t] # r


\* C32: for every step the Reader emits, input_state is the filtered baseline
\* state with the state writes of all the steps emitted before it applied in
\* order: the state of the run entering the step.
C32_InputStateIsStateBefore ==
    \A r \in RunIds :
        LET d == workflow_run_details(checkpoints[r]) IN
        \A i \in 1..Len(d.steps) :
            d.steps[i].input_state
                = Overlay(Projected(checkpoints[r][1].channel_values), SubSeq(d.steps, 1, i - 1))

\* C33: the Reader names its steps from a FIFO queue seeded with the branch
\* targets of the baseline's pending writes and extended by the branch writes
\* of each step; a step takes the front of the queue, and only with an empty
\* queue is its node the prefix of one of its Node.field state channels, or
\* null when it has none.
BranchTargets(writes) ==
    LET b == SelectSeq(writes, LAMBDA x : x.channel \in BranchChannels)
    IN  [i \in 1..Len(b) |-> BranchTarget(b[i].channel)]

InferredNames(step) ==
    { NodePrefix(step.writes[i].channel) :
        i \in { j \in 1..Len(step.writes) :
                  step.writes[j].kind = "state" /\ HasDot(step.writes[j].channel) } }

RECURSIVE NamedFromQueue(_, _)
NamedFromQueue(queue, steps) ==
    IF steps = <<>> THEN TRUE
    ELSE LET step == Head(steps) IN
         /\ IF queue # <<>> THEN step.node = Head(queue)
            ELSE IF InferredNames(step) = {} THEN step.node = Null
            ELSE step.node \in InferredNames(step)
         /\ NamedFromQueue((IF queue # <<>> THEN Tail(queue) ELSE <<>>)
                               \o BranchTargets(step.writes), Tail(steps))

C33_NodesFromQueue ==
    lastOp.op = "run_details" /\ checkpoints[lastOp.run] # <<>> =>
        NamedFromQueue(BranchTargets(checkpoints[lastOp.run][1].pending_writes),
                       lastOp.details.steps)

\* The Reader has named a step from the queue, inferred the node of a later
\* step from a state channel, and left a third one without a node.
C33_Witness ==
    /\ lastOp.op = "run_details"
    /\ LET steps == lastOp.details.steps IN
       /\ Len(steps) >= 3
       /\ steps[1].node = "GetPhotos" /\ steps[2].node = "ExtractNote"
       /\ \E i \in 1..Len(steps) : steps[i].node = Null
       /\ \E i \in 1..Len(steps) :
            /\ steps[i].node = "AgreeWithUser"
            /\ \A j \in 1..(i - 1) :
                  \A k \in 1..Len(steps[j].branches) : steps[j].branches[k] # "AgreeWithUser"

\* C34: the Reader emits one step per task_id group of every checkpoint with
\* step >= 0, in checkpoint order and then in write order, each with all the
\* writes of its group and their kinds; the baseline and a checkpoint without
\* pending writes emit no step and leave the filtered channel values as the
\* current state.
GroupStarts(writes) ==
    { i \in 1..Len(writes) : i = 1 \/ writes[i].task_id # writes[i - 1].task_id }

GroupEnd(writes, i) ==
    IF \E j \in GroupStarts(writes) : j > i
    THEN Min({ j \in GroupStarts(writes) : j > i }) - 1
    ELSE Len(writes)

KindOf(channel) ==
    IF channel \in BranchChannels THEN "branch"
    ELSE IF channel \in SystemChannels THEN "system" ELSE "state"

\* the steps a checkpoint stands for: <<step, task_id, writes with kinds>>
StepsOf(checkpoint) ==
    LET w == checkpoint.pending_writes
        starts == GroupStarts(w)
        nth(k) == CHOOSE i \in starts : Cardinality({ j \in starts : j <= i }) = k
    IN  IF checkpoint.step < 0 THEN <<>>
        ELSE [k \in 1..Cardinality(starts) |->
                 [step |-> checkpoint.step, task_id |-> w[nth(k)].task_id,
                  writes |-> [i \in 1..(GroupEnd(w, nth(k)) - nth(k) + 1) |->
                                 [channel |-> w[nth(k) + i - 1].channel,
                                  kind |-> KindOf(w[nth(k) + i - 1].channel),
                                  value |-> w[nth(k) + i - 1].value]]]]

RECURSIVE StepsOfLog(_)
StepsOfLog(log) == IF log = <<>> THEN <<>> ELSE StepsOf(Head(log)) \o StepsOfLog(Tail(log))

EmittedSteps(details) ==
    [i \in 1..Len(details.steps) |->
        [step |-> details.steps[i].step, task_id |-> details.steps[i].task_id,
         writes |-> details.steps[i].writes]]

C34_OneStepPerGroup ==
    lastOp.op = "run_details" =>
        LET log == checkpoints[lastOp.run] IN
        /\ EmittedSteps(lastOp.details) = StepsOfLog(log)
        /\ log # <<>> =>
              lastOp.details.current_state
                  = Projected(log[Len(log)].channel_values)

\* The Reader has read a log with a checkpoint of two groups, one with a
\* system write only and one without pending writes at the end.
C34_Witness ==
    /\ lastOp.op = "run_details"
    /\ LET log == checkpoints[lastOp.run] IN
       /\ Len(log) >= 4
       /\ log[Len(log)].pending_writes = <<>>
       /\ \E i \in 1..Len(log) : Cardinality(GroupStarts(log[i].pending_writes)) = 2
       /\ \E i \in 1..Len(log) :
             log[i].step >= 0 /\ Len(log[i].pending_writes) = 1
                /\ log[i].pending_writes[1].channel \in SystemChannels
       /\ Len(lastOp.details.steps) = 3


\* C35: claim_job takes the queued run with the smallest id among those no
\* other claim in flight has locked, and returns none and changes nothing
\* when there is no such run; what it commits changes that run only: state
\* running, worker_id the caller, started_at and heartbeat_at now, attempt one
\* more, every other column and every other run as before.
LockedByOther(w) == { job[v].id : v \in { u \in Workers \ {w} : pc[u] = "claiming" } }

Claimable(w) == { r \in DOMAIN runs : runs[r].state = "queued" /\ r \notin LockedByOther(w) }

ClaimedRow(old, new, w, at) ==
    /\ new.state = "running" /\ new.worker_id = w
    /\ new.started_at = at /\ new.heartbeat_at = at
    /\ new.attempt = old.attempt + 1
    /\ new.id = old.id /\ new.graph_name = old.graph_name /\ new.thread_id = old.thread_id
    /\ new.max_attempts = old.max_attempts /\ new.finished_at = old.finished_at
    /\ new.error = old.error /\ new.inputs = old.inputs
    /\ new.resume_payload = old.resume_payload /\ new.result = old.result

C35_ClaimTakesSmallestUnlocked ==
    [][/\ lastOp'.op = "claim_job_execute" =>
            LET w == lastOp'.arg IN
            IF Claimable(w) = {}
            THEN ~lastOp'.ok /\ runs' = runs /\ job' = job /\ pc' = pc
            ELSE /\ lastOp'.ok /\ lastOp'.run = Min(Claimable(w))
                 /\ ClaimedRow(runs[lastOp'.run], job'[w], w, now)
       /\ lastOp'.op = "claim_job_commit" =>
            LET w == lastOp'.arg
                r == lastOp'.run IN
            /\ DOMAIN runs' = DOMAIN runs
            /\ runs'[r] = job[w] /\ job'[w] = job[w]
            /\ ClaimedRow(runs[r], runs'[r], w, runs'[r].started_at)
            /\ \A q \in DOMAIN runs \ {r} : runs'[q] = runs[q]]_vars

\* A worker has taken the second run of the queue while the claim of the
\* other worker, not yet committed, holds the first one.
C35_Witness ==
    /\ lastOp.op = "claim_job_execute" /\ lastOp.ok
    /\ \E v \in Workers \ {lastOp.arg} : pc[v] = "claiming" /\ job[v].id < lastOp.run
    /\ runs[lastOp.run].state = "queued"
    /\ job[lastOp.arg].attempt = 1 /\ job[lastOp.arg].started_at > 0


\* C36: at any time at most one execution of a run is in progress: no two
\* workers wait for run_wirl on the same run, and no thread of an earlier
\* call of run_workflow is still running on the thread_id when another
\* execution of the run is.
Executing(r) ==
    { w \in Workers : \/ pc[w] = "exec" /\ job[w].id = r
                      \/ runner[w].phase = "running" /\ runner[w].thread = r }

C36_OneExecutionPerRun ==
    \A r \in RunIds : Cardinality(Executing(r)) <= 1


\* C37: whenever a worker calls run_workflow with params = None (the row has
\* a resume_payload or attempt > 1), the thread of the run already has a
\* checkpoint.
C37_ResumeFindsCheckpoint ==
    [][lastOp'.op = "run_workflow" /\ RunWorkflowCall(job[lastOp'.arg]).params = PyNone
          => checkpoints[lastOp'.run] # <<>>]_vars


\* C38: the attempt of a run counts its claims: a new run has attempt 0, a
\* claim_job that returns the run adds exactly 1, and no other step (continue,
\* cancel, set_state, time passing) changes it.
C38_AttemptCountsClaims ==
    [][\A r \in DOMAIN runs' :
          IF r \notin DOMAIN runs THEN runs'[r].attempt = 0
          ELSE IF Claimed(r) THEN runs'[r].attempt = runs[r].attempt + 1
          ELSE runs'[r].attempt = runs[r].attempt]_vars

\* A run that was claimed twice has been continued again, and a worker has
\* stored the end of its second execution before.
C38_Witness ==
    /\ lastOp.op = "continue_commit"
    /\ runs[lastOp.run].attempt = 2
    /\ runs[lastOp.run].state = "queued"
    /\ runs[lastOp.run].error # Null


\* C39: a run in succeeded or needs_input has no error, also when an earlier
\* attempt of it failed, and a failed run has one.
C39_ErrorFollowsState ==
    \A r \in DOMAIN runs :
        /\ runs[r].state \in {"succeeded", "needs_input"} => runs[r].error = Null
        /\ runs[r].state = "failed" => runs[r].error # Null

\* A worker has stored succeeded for the second attempt of a run whose first
\* attempt failed (it was continued without an answer).
C39_Witness ==
    /\ lastOp.op = "set_state" /\ lastOp.ok /\ lastOp.arg = "return"
    /\ runs[lastOp.run].state = "succeeded"
    /\ runs[lastOp.run].attempt = 2
    /\ runs[lastOp.run].resume_payload = Null
    /\ runs[lastOp.run].error = Null


\* C40: with worker loops that keep going, every queued run is eventually
\* claimed: queued leads to running.
C40_QueuedEventuallyClaimed ==
    \A r \in RunIds :
        (r \in DOMAIN runs /\ runs[r].state = "queued") ~> IsRunning(r)

====
